---- MODULE Spec2Model ----
(***************************************************************************)
(* Verification model of the spreadsheet conversion core of                *)
(* ck-apstra-tauri: the merged-cell reconstructor, the row assembly of     *)
(* parse_worksheet_data and the header resolvers.                          *)
(*                                                                         *)
(* Strings are sequences of one-character strings, so that trimming,       *)
(* case folding and whitespace collapsing are computed, not assumed.       *)
(* A HashMap that the code iterates is a sequence of <<key, value>> pairs  *)
(* with distinct keys, in the (arbitrary but fixed per map) order in which *)
(* the map iterates; a HashMap that is only looked up is a function.       *)
(***************************************************************************)
EXTENDS Integers, Sequences, FiniteSets

VARIABLES
    row,                \* RowSpec: the input row of propagate_merged_cells_in_row
    row_result,         \* RowSpec: the row it returned
    row_pc,             \* RowSpec: "input" before the call, "done" after it
    in_worksheet_rows,     \* ParseSpec: the rows of the worksheet Range
    in_conversion_map,     \* ParseSpec: the Option<ConversionMap> given to parse_worksheet_data
    parsed,             \* ParseSpec: locals and result of parse_worksheet_data
    conv_row_data,      \* ParseSpec: row_data given to convert_to_network_config_row
    conv_field_map,     \* ParseSpec: field_map given to convert_to_network_config_row
    conv_result,        \* ParseSpec: the Option<NetworkConfigRow> it returned
    parse_pc,           \* ParseSpec: which call is pending or finished
    hdr_headers,        \* HdrSpec: the headers given to the resolvers
    hdr_mappings,       \* HdrSpec: the mappings of the ConversionMap, in iteration order
    hdr_enhanced,       \* HdrSpec: the field_definitions of the EnhancedConversionMap
    hdr_result,         \* HdrSpec: what the resolver that ran computed
    hdr_pc,             \* HdrSpec: which resolver is pending or has run
    xf_transformations, \* XformSpec: the rule names listed for the field
    xf_input,           \* XformSpec: the value of the field
    xf_context,         \* XformSpec: the Option<&HashMap> of sibling values
    xf_result,          \* XformSpec: the Result the call returned
    xf_pc,              \* XformSpec: which call is pending or has run
    val_field_data,     \* ValidSpec: the field_data given to validate_field_values
    val_enhanced_map,   \* ValidSpec: the field_definitions of the EnhancedConversionMap
    val_result,         \* ValidSpec: the ValidationResult it returned
    val_pc,             \* ValidSpec: "input" before the call, "validated" after it
    json_in,            \* JsonSpec: the ConversionMap given to to_json_map
    json_result,        \* JsonSpec: the JSON map and the ConversionMap read back
    json_pc,            \* JsonSpec: "input" before the round trip, "read" after it
    clients,            \* SessionSpec: the HashMap<String, ApstraApiClient> in the Mutex
    mutex,              \* SessionSpec: the command holding the MutexGuard, 0 for none
    commands,           \* SessionSpec: the running invocation of each command slot
    logged_out          \* SessionSpec: history, the sessions whose logout returned last

row_vars == <<row, row_result, row_pc>>

parse_vars == <<in_worksheet_rows, in_conversion_map, parsed, conv_row_data, conv_field_map,
                conv_result, parse_pc>>

hdr_vars == <<hdr_headers, hdr_mappings, hdr_enhanced, hdr_result, hdr_pc>>

xf_vars == <<xf_transformations, xf_input, xf_context, xf_result, xf_pc>>

val_vars == <<val_field_data, val_enhanced_map, val_result, val_pc>>

json_vars == <<json_in, json_result, json_pc>>

sess_vars == <<clients, mutex, commands, logged_out>>

\* The variables of the spreadsheet pipeline, and those of the services
file_vars == <<row_vars, parse_vars, hdr_vars, xf_vars>>

aux_vars == <<val_vars, json_vars, sess_vars>>

vars == <<row, row_result, row_pc, in_worksheet_rows, in_conversion_map, parsed,
          conv_row_data, conv_field_map, conv_result, parse_pc, hdr_headers, hdr_mappings,
          hdr_enhanced, hdr_result, hdr_pc, xf_transformations, xf_input, xf_context,
          xf_result, xf_pc, val_field_data, val_enhanced_map, val_result, val_pc,
          json_in, json_result, json_pc, clients, mutex, commands, logged_out>>

-----------------------------------------------------------------------------
(* Option<T> *)

None == [some |-> FALSE]

Some(v) == [some |-> TRUE, v |-> v]

IsSome(o) == o.some

-----------------------------------------------------------------------------
(* Strings as sequences of characters *)

Whitespace == {" ", "\t", "\n", "\r"}

\* char::is_whitespace, as used by str::trim and str::split_whitespace
IsWhitespace(c) == c \in Whitespace

RECURSIVE TrimStart(_)
TrimStart(s) ==
    IF s = <<>> THEN <<>>
    ELSE IF IsWhitespace(Head(s)) THEN TrimStart(Tail(s))
    ELSE s

RECURSIVE TrimEnd(_)
TrimEnd(s) ==
    IF s = <<>> THEN <<>>
    ELSE IF IsWhitespace(s[Len(s)]) THEN TrimEnd(SubSeq(s, 1, Len(s) - 1))
    ELSE s

\* str::trim
Trim(s) == TrimEnd(TrimStart(s))

-----------------------------------------------------------------------------
(* calamine::DataType cells *)

Empty == [kind |-> "Empty", text |-> <<>>]

Str(s) == [kind |-> "String", text |-> s]

\* DataType::is_empty: only the Empty variant is empty, String("") is not
IsEmpty(cell) == cell.kind = "Empty"

\* DataType's Display: the text of a String cell, "" for Empty
to_string(cell) == cell.text

-----------------------------------------------------------------------------
(* propagate_merged_cells_in_row *)

MaxPropagationDistance == 3

CategoryMinCells == 5

non_empty_count(r) == Cardinality({i \in 1..Len(r) : ~IsEmpty(r[i])})

\* The guard with both comparisons made inclusive
IsCategoryRowLenient(r) ==
    Len(r) >= CategoryMinCells /\ 10 * non_empty_count(r) <= 3 * Len(r)

\* total_cells > 5 && (non_empty_count as f32 / total_cells as f32) < 0.3
\* Both sides are correctly rounded f32 values of the exact quotient and of
\* 3/10, so for the row lengths here the comparison is the exact one.
IsCategoryRow(r) ==
    Len(r) > CategoryMinCells /\ 10 * non_empty_count(r) < 3 * Len(r)

\* The for loop of propagate_merged_cells_in_row: result is the row being
\* rewritten, i the (1-based) index, last_non_empty_value and
\* propagation_start_index the two Option locals.
RECURSIVE PropagateLoop(_, _, _, _)
PropagateLoop(result, i, last_non_empty_value, propagation_start_index) ==
    IF i > Len(result) THEN result
    ELSE IF ~IsEmpty(result[i])
    THEN PropagateLoop(result, i + 1, Some(result[i]), Some(i))
    ELSE IF IsSome(last_non_empty_value) /\ IsSome(propagation_start_index)
    THEN LET distance == i - propagation_start_index.v IN
         IF distance <= MaxPropagationDistance
         THEN PropagateLoop([result EXCEPT ![i] = last_non_empty_value.v],
                            i + 1, last_non_empty_value, propagation_start_index)
         ELSE PropagateLoop(result, i + 1, None, None)
    ELSE PropagateLoop(result, i + 1, last_non_empty_value, propagation_start_index)

\* The loop without the distance test (every empty cell after a value is filled)
RECURSIVE PropagateLoopUnbounded(_, _, _)
PropagateLoopUnbounded(result, i, last_non_empty_value) ==
    IF i > Len(result) THEN result
    ELSE IF ~IsEmpty(result[i])
    THEN PropagateLoopUnbounded(result, i + 1, Some(result[i]))
    ELSE IF IsSome(last_non_empty_value)
    THEN PropagateLoopUnbounded([result EXCEPT ![i] = last_non_empty_value.v],
                                i + 1, last_non_empty_value)
    ELSE PropagateLoopUnbounded(result, i + 1, last_non_empty_value)

propagate_merged_cells_in_row_unbounded(r) ==
    IF IsCategoryRow(r) THEN r ELSE PropagateLoopUnbounded(r, 1, None)

\* The function with the leading empty cells filled, too, from the first
\* value on their right
propagate_merged_cells_in_row_backfilling(r) ==
    IF IsCategoryRow(r) THEN r
    ELSE LET S == {j \in 1..Len(r) : ~IsEmpty(r[j])}
             first == IF S = {} THEN 0 ELSE CHOOSE j \in S : \A k \in S : j <= k
         IN PropagateLoop([i \in 1..Len(r) |->
                              IF i < first THEN r[first] ELSE r[i]],
                          1, None, None)

propagate_merged_cells_in_row(r) ==
    IF IsCategoryRow(r) THEN r ELSE PropagateLoop(r, 1, None, None)

-----------------------------------------------------------------------------
(* More string operations *)

UpperLetters ==
    {"A", "B", "C", "D", "E", "F", "G", "H", "I", "J", "K", "L", "M", "N", "O", "P",
     "Q", "R", "S", "T", "U", "V", "W", "X", "Y", "Z"}

LowerTable ==
    [c \in UpperLetters |->
        CASE c = "A" -> "a" [] c = "B" -> "b" [] c = "C" -> "c" [] c = "D" -> "d"
          [] c = "E" -> "e" [] c = "F" -> "f" [] c = "G" -> "g" [] c = "H" -> "h"
          [] c = "I" -> "i" [] c = "J" -> "j" [] c = "K" -> "k" [] c = "L" -> "l"
          [] c = "M" -> "m" [] c = "N" -> "n" [] c = "O" -> "o" [] c = "P" -> "p"
          [] c = "Q" -> "q" [] c = "R" -> "r" [] c = "S" -> "s" [] c = "T" -> "t"
          [] c = "U" -> "u" [] c = "V" -> "v" [] c = "W" -> "w" [] c = "X" -> "x"
          [] c = "Y" -> "y" [] c = "Z" -> "z"]

\* char::to_lowercase on the ASCII letters (other characters are unchanged)
LowerChar(c) == IF c \in UpperLetters THEN LowerTable[c] ELSE c

\* A sequence given as a function on 1..n, as the tuple of its elements
AsSeq(f) == f \o <<>>

\* str::to_lowercase
to_lowercase(s) == AsSeq([i \in 1..Len(s) |-> LowerChar(s[i])])

\* str::replace(from, to) for a single character from
ReplaceChar(s, from, to) == AsSeq([i \in 1..Len(s) |-> IF s[i] = from THEN to ELSE s[i]])

\* str::split_whitespace: the maximal runs of non-whitespace characters
RECURSIVE SplitLoop(_, _, _)
SplitLoop(s, words, current) ==
    IF s = <<>>
    THEN IF current = <<>> THEN words ELSE Append(words, current)
    ELSE IF IsWhitespace(Head(s))
    THEN SplitLoop(Tail(s), IF current = <<>> THEN words ELSE Append(words, current), <<>>)
    ELSE SplitLoop(Tail(s), words, Append(current, Head(s)))

split_whitespace(s) == SplitLoop(s, <<>>, <<>>)

\* [&str]::join(sep)
RECURSIVE Join(_, _)
Join(words, sep) ==
    IF words = <<>> THEN <<>>
    ELSE IF Len(words) = 1 THEN words[1]
    ELSE words[1] \o sep \o Join(Tail(words), sep)

\* str::contains(pat): pat occurs in s as a contiguous substring
Contains(s, pat) ==
    \E i \in 0..(Len(s) - Len(pat)) : SubSeq(s, i + 1, i + Len(pat)) = pat

-----------------------------------------------------------------------------
(* HashMap<String, String> as a function; Vec sorting *)

EmptyMap == [k \in {} |-> <<>>]

\* HashMap::insert (an existing entry is overwritten)
Insert(m, k, v) == [x \in (DOMAIN m) \cup {k} |-> IF x = k THEN v ELSE m[x]]

\* sort_by_key(|x| Reverse(len(x))): a stable sort, longest first.  lens[i]
\* is the key of seq[i].
StableSortByLenDesc(seq, lens) ==
    LET Before(i, j) == lens[i] > lens[j] \/ (lens[i] = lens[j] /\ i < j)
        Rank(i) == 1 + Cardinality({j \in 1..Len(seq) : Before(j, i)})
    IN  AsSeq([r \in 1..Len(seq) |-> seq[CHOOSE i \in 1..Len(seq) : Rank(i) = r]])

\* Index of the first element of a non-empty set of indices
MinIndex(S) == CHOOSE i \in S : \A j \in S : i <= j

-----------------------------------------------------------------------------
(* create_conversion_field_mapping and create_field_mapping *)

\* The normalize_header closure: case-fold, CR and LF to spaces, split on
\* whitespace and re-join with single spaces
normalize_header(header) ==
    Join(split_whitespace(
             ReplaceChar(ReplaceChar(to_lowercase(header), "\r", " "), "\n", " ")),
         <<" ">>)

\* conversion_mappings is the map in iteration order: <<excel_header, target_field>>
sorted_mappings(conversion_mappings) ==
    StableSortByLenDesc(conversion_mappings,
                        AsSeq([i \in 1..Len(conversion_mappings) |->
                                  Len(conversion_mappings[i][1])]))

\* normalized_excel_header of every entry of sorted_mappings
normalized_keys(sorted) ==
    AsSeq([i \in 1..Len(sorted) |-> normalize_header(sorted[i][1])])

\* Phase 1, one header: the first mapping (longest key first) whose
\* normalized key equals the normalized header claims its field for this
\* header unless the field is already mapped; the search stops there.
Phase1Header(field_map, header, sorted, keys) ==
    LET normalized_header == normalize_header(header)
        hits == {i \in 1..Len(sorted) : normalized_header = keys[i]} IN
    IF hits = {} THEN field_map
    ELSE LET target_field == sorted[MinIndex(hits)][2] IN
         IF target_field \in DOMAIN field_map THEN field_map
         ELSE Insert(field_map, target_field, header)

RECURSIVE Phase1(_, _, _, _)
Phase1(field_map, headers, sorted, keys) ==
    IF headers = <<>> THEN field_map
    ELSE Phase1(Phase1Header(field_map, Head(headers), sorted, keys), Tail(headers),
                sorted, keys)

\* Phase 2 with the already-mapped tests dropped: a partial match overwrites
Phase2HeaderOverwrite(field_map, header, sorted, keys) ==
    LET normalized_header == normalize_header(header)
        hits == {i \in 1..Len(sorted) :
                    \/ Contains(normalized_header, keys[i])
                    \/ Contains(keys[i], normalized_header)} IN
    IF hits = {} THEN field_map
    ELSE Insert(field_map, sorted[MinIndex(hits)][2], header)

\* Phase 2, one header: skipped when some field already maps to this header;
\* otherwise the first mapping whose normalized key contains or is contained
\* in the normalized header claims its field unless already mapped.
Phase2Header(field_map, header, sorted, keys) ==
    IF \E f \in DOMAIN field_map : field_map[f] = header THEN field_map
    ELSE LET normalized_header == normalize_header(header)
             hits == {i \in 1..Len(sorted) :
                         \/ Contains(normalized_header, keys[i])
                         \/ Contains(keys[i], normalized_header)} IN
         IF hits = {} THEN field_map
         ELSE LET target_field == sorted[MinIndex(hits)][2] IN
              IF target_field \in DOMAIN field_map THEN field_map
              ELSE Insert(field_map, target_field, header)

RECURSIVE Phase2(_, _, _, _)
Phase2(field_map, headers, sorted, keys) ==
    IF headers = <<>> THEN field_map
    ELSE Phase2(Phase2Header(field_map, Head(headers), sorted, keys), Tail(headers),
                sorted, keys)

\* ConversionMap::get_default_field_variations (each field with its Vec, the
\* fields in one iteration order; the loop treats each field on its own)
get_default_field_variations ==
    <<
       <<"server_label", <<
            <<"s", "e", "r", "v", "e", "r", "_", "l", "a", "b", "e", "l">>,
            <<"s", "e", "r", "v", "e", "r">>,
            <<"s", "e", "r", "v", "e", "r", "_", "n", "a", "m", "e">>,
            <<"h", "o", "s", "t", "n", "a", "m", "e">>,
            <<"h", "o", "s", "t", " ", "n", "a", "m", "e">>,
            <<"h", "o", "s", "t", "_", "n", "a", "m", "e">> >> >>,
       <<"switch_label", <<
            <<"s", "w", "i", "t", "c", "h", "_", "l", "a", "b", "e", "l">>,
            <<"s", "w", "i", "t", "c", "h">>,
            <<"s", "w", "i", "t", "c", "h", "_", "n", "a", "m", "e">>,
            <<"s", "w", "i", "t", "c", "h", " ", "n", "a", "m", "e">>,
            <<"d", "e", "v", "i", "c", "e">> >> >>,
       <<"switch_ifname", <<
            <<"s", "w", "i", "t", "c", "h", "_", "i", "f", "n", "a", "m", "e">>,
            <<"s", "w", "i", "t", "c", "h", "_", "i", "n", "t", "e", "r", "f", "a", "c", "e">>,
            <<"s", "w", "i", "t", "c", "h", "_", "p", "o", "r", "t">>,
            <<"s", "w", "i", "t", "c", "h", " ", "p", "o", "r", "t">>,
            <<"p", "o", "r", "t">>,
            <<"i", "n", "t", "e", "r", "f", "a", "c", "e">> >> >>,
       <<"server_ifname", <<
            <<"s", "e", "r", "v", "e", "r", "_", "i", "f", "n", "a", "m", "e">>,
            <<"s", "e", "r", "v", "e", "r", "_", "i", "n", "t", "e", "r", "f", "a", "c", "e">>,
            <<"s", "e", "r", "v", "e", "r", "_", "p", "o", "r", "t">>,
            <<"s", "e", "r", "v", "e", "r", " ", "p", "o", "r", "t">>,
            <<"n", "i", "c">>,
            <<"s", "l", "o", "t">>,
            <<"s", "l", "o", "t", "/", "p", "o", "r", "t">>,
            <<"s", "l", "o", "t", " ", "p", "o", "r", "t">> >> >>,
       <<"is_external", <<
            <<"i", "s", "_", "e", "x", "t", "e", "r", "n", "a", "l">>,
            <<"e", "x", "t", "e", "r", "n", "a", "l">>,
            <<"e", "x", "t">> >> >>,
       <<"link_speed", <<
            <<"l", "i", "n", "k", "_", "s", "p", "e", "e", "d">>,
            <<"s", "p", "e", "e", "d">>,
            <<"b", "a", "n", "d", "w", "i", "d", "t", "h">>,
            <<"s", "p", "e", "e", "d", " ", "(", "g", "b", ")">>,
            <<"s", "p", "e", "e", "d", "(", "g", "b", ")">> >> >>,
       <<"link_group_lag_mode", <<
            <<"l", "i", "n", "k", "_", "g", "r", "o", "u", "p", "_", "l", "a", "g", "_", "m", "o", "d", "e">>,
            <<"l", "a", "g", "_", "m", "o", "d", "e">>,
            <<"b", "o", "n", "d", "_", "m", "o", "d", "e">>,
            <<"m", "o", "d", "e">>,
            <<"l", "a", "c", "p", "n", "e", "e", "d", "e", "d">>,
            <<"l", "a", "c", "p", " ", "n", "e", "e", "d", "e", "d">> >> >>,
       <<"link_group_ct_names", <<
            <<"l", "i", "n", "k", "_", "g", "r", "o", "u", "p", "_", "c", "t", "_", "n", "a", "m", "e", "s">>,
            <<"c", "t">>,
            <<"c", "t", "s">>,
            <<"c", "o", "n", "n", "e", "c", "t", "i", "v", "i", "t", "y", "_", "t", "e", "m", "p", "l", "a", "t", "e">> >> >>,
       <<"server_tags", <<
            <<"s", "e", "r", "v", "e", "r", "_", "t", "a", "g", "s">>,
            <<"t", "a", "g", "s">> >> >>,
       <<"link_tags", <<
            <<"l", "i", "n", "k", "_", "t", "a", "g", "s">>,
            <<"t", "a", "g", "s">> >> >>,
       <<"comment", <<
            <<"c", "o", "m", "m", "e", "n", "t">>,
            <<"c", "o", "m", "m", "e", "n", "t", "s">>,
            <<"d", "e", "s", "c", "r", "i", "p", "t", "i", "o", "n">>,
            <<"n", "o", "t", "e", "s">> >> >>
    >>

\* The variation loop for one field and one header: an exact match inserts
\* (overwriting) and ends the field; a partial match inserts only while the
\* field is unmapped.  Returns <<field_map, field_matched>>.
RECURSIVE VariationLoop(_, _, _, _)
VariationLoop(field_map, field_name, header, variations) ==
    IF variations = <<>> THEN <<field_map, FALSE>>
    ELSE LET variation_lower == to_lowercase(Head(variations))
             normalized_header == normalize_header(header) IN
         IF normalized_header = variation_lower
         THEN <<Insert(field_map, field_name, header), TRUE>>
         ELSE IF /\ field_name \notin DOMAIN field_map
                 /\ \/ Contains(normalized_header, variation_lower)
                    \/ Contains(variation_lower, normalized_header)
         THEN VariationLoop(Insert(field_map, field_name, header), field_name,
                            header, Tail(variations))
         ELSE VariationLoop(field_map, field_name, header, Tail(variations))

RECURSIVE FieldHeaderLoop(_, _, _, _)
FieldHeaderLoop(field_map, field_name, sorted_headers, sorted_variations) ==
    IF sorted_headers = <<>> THEN field_map
    ELSE LET r == VariationLoop(field_map, field_name, Head(sorted_headers),
                                sorted_variations) IN
         IF r[2] THEN r[1]
         ELSE FieldHeaderLoop(r[1], field_name, Tail(sorted_headers), sorted_variations)

RECURSIVE VariationFieldsLoop(_, _, _)
VariationFieldsLoop(field_map, sorted_headers, default_variations) ==
    IF default_variations = <<>> THEN field_map
    ELSE LET field_name == Head(default_variations)[1]
             variations == Head(default_variations)[2]
             sorted_variations ==
                 StableSortByLenDesc(variations,
                                     AsSeq([i \in 1..Len(variations) |-> Len(variations[i])])) IN
         VariationFieldsLoop(
             FieldHeaderLoop(field_map, field_name, sorted_headers, sorted_variations),
             sorted_headers, Tail(default_variations))

\* create_field_mapping, and the identical fallback block of
\* create_conversion_field_mapping: headers longest first, each field of the
\* variations table matched on its own
create_field_mapping(headers) ==
    VariationFieldsLoop(
        EmptyMap,
        StableSortByLenDesc(headers, AsSeq([i \in 1..Len(headers) |-> Len(headers[i])])),
        get_default_field_variations)

\* The field map after phase 1 only
exact_phase(headers, conversion_mappings) ==
    LET sorted == sorted_mappings(conversion_mappings) IN
    Phase1(EmptyMap, headers, sorted, normalized_keys(sorted))

create_conversion_field_mapping(headers, conversion_mappings) ==
    LET sorted == sorted_mappings(conversion_mappings)
        keys == normalized_keys(sorted)
        field_map == Phase2(Phase1(EmptyMap, headers, sorted, keys), headers, sorted, keys) IN
    IF field_map = EmptyMap THEN create_field_mapping(headers) ELSE field_map

-----------------------------------------------------------------------------
(* EnhancedConversionService: find_best_field_match and                      *)
(* convert_headers_with_enhanced_map; CompatibilityService:                  *)
(* upgrade_simple_to_enhanced                                                *)

\* XlsxMapping (transform is not read by the resolver)
XlsxMapping(pattern, mapping_type, priority, case_sensitive) ==
    [pattern |-> pattern, mapping_type |-> mapping_type, priority |-> priority,
     case_sensitive |-> case_sensitive]

\* The part of a FieldDefinition the header resolver reads
FieldDefinition(xlsx_mappings, transformations) ==
    [xlsx_mappings |-> xlsx_mappings, transformations |-> transformations]

\* A confidence is the fraction <<numerator, denominator>>.  The f64 values
\* the code compares are 1.0, 0.9, 0.8, 0.0 and 1 - d/m for small d and m,
\* whose order and equalities are those of the fractions.
ConfOne == <<1, 1>>

ConfRegex == <<9, 10>>

ConfPartial == <<4, 5>>

ConfZero == <<0, 1>>

ConfGreater(a, b) == a[1] * b[2] > b[1] * a[2]

ConfEqual(a, b) == a[1] * b[2] = b[1] * a[2]

Min2(a, b) == IF a <= b THEN a ELSE b

\* One row of the matrix of levenshtein_distance: matrix[i] from matrix[i-1]
\* (prev), for the character c1 of s1; cur holds matrix[i][0..j-1]
RECURSIVE LevenshteinRow(_, _, _, _)
LevenshteinRow(prev, c1, s2, cur) ==
    LET j == Len(cur) IN
    IF j > Len(s2) THEN cur
    ELSE LET cost == IF c1 = s2[j] THEN 0 ELSE 1 IN
         LevenshteinRow(prev, c1, s2,
             Append(cur, Min2(Min2(prev[j + 1] + 1, cur[j] + 1), prev[j] + cost)))

RECURSIVE LevenshteinRows(_, _, _, _)
LevenshteinRows(prev, s1, s2, i) ==
    IF i > Len(s1) THEN prev
    ELSE LevenshteinRows(LevenshteinRow(prev, s1[i], s2, <<i>>), s1, s2, i + 1)

levenshtein_distance(s1, s2) ==
    LevenshteinRows(AsSeq([j \in 1..(Len(s2) + 1) |-> j - 1]), s1, s2, 1)[Len(s2) + 1]

calculate_fuzzy_confidence(pattern, text) ==
    LET max_len == IF Len(pattern) >= Len(text) THEN Len(pattern) ELSE Len(text) IN
    IF max_len = 0 THEN ConfOne
    ELSE <<max_len - levenshtein_distance(pattern, text), max_len>>

\* The match on mapping_type in find_best_field_match.  A Regex pattern here
\* is a literal without metacharacters, for which Regex::is_match is an
\* unanchored, case-sensitive substring search.
mapping_confidence(xlsx_mapping, excel_header) ==
    LET pattern == IF xlsx_mapping.case_sensitive THEN xlsx_mapping.pattern
                   ELSE to_lowercase(xlsx_mapping.pattern)
        header == IF xlsx_mapping.case_sensitive THEN excel_header
                  ELSE to_lowercase(excel_header) IN
    CASE xlsx_mapping.mapping_type = "Exact" ->
             IF pattern = header THEN ConfOne ELSE ConfZero
      [] xlsx_mapping.mapping_type = "Partial" ->
             IF Contains(header, pattern) THEN ConfPartial ELSE ConfZero
      [] xlsx_mapping.mapping_type = "Regex" ->
             IF Contains(excel_header, xlsx_mapping.pattern) THEN ConfRegex ELSE ConfZero
      [] xlsx_mapping.mapping_type = "Fuzzy" ->
             calculate_fuzzy_confidence(xlsx_mapping.pattern, excel_header)

\* The inner loop with a mapping taking over from the running best when its
\* confidence is not below it
RECURSIVE XlsxMappingsLoopLenient(_, _, _, _)
XlsxMappingsLoopLenient(best, field_name, xlsx_mappings, excel_header) ==
    IF xlsx_mappings = <<>> THEN best
    ELSE LET confidence == mapping_confidence(Head(xlsx_mappings), excel_header) IN
         XlsxMappingsLoopLenient(
             IF ~ConfGreater(best.best_confidence, confidence)
             THEN [best_match |-> Some(field_name), best_confidence |-> confidence]
             ELSE best,
             field_name, Tail(xlsx_mappings), excel_header)

\* The inner loop over the xlsx_mappings of one field; best is
\* [best_match, best_confidence]
RECURSIVE XlsxMappingsLoop(_, _, _, _)
XlsxMappingsLoop(best, field_name, xlsx_mappings, excel_header) ==
    IF xlsx_mappings = <<>> THEN best
    ELSE LET confidence == mapping_confidence(Head(xlsx_mappings), excel_header) IN
         XlsxMappingsLoop(
             IF ConfGreater(confidence, best.best_confidence)
             THEN [best_match |-> Some(field_name), best_confidence |-> confidence]
             ELSE best,
             field_name, Tail(xlsx_mappings), excel_header)

\* The outer loop over field_definitions, a sequence of
\* <<field_name, field_def>> in the iteration order of the HashMap
RECURSIVE FieldDefinitionsLoop(_, _, _)
FieldDefinitionsLoop(best, field_definitions, excel_header) ==
    IF field_definitions = <<>> THEN best
    ELSE FieldDefinitionsLoop(
             XlsxMappingsLoop(best, Head(field_definitions)[1],
                              Head(field_definitions)[2].xlsx_mappings, excel_header),
             Tail(field_definitions), excel_header)

\* Returns None or Some(<<field_name, confidence>>)
find_best_field_match(excel_header, field_definitions) ==
    LET best == FieldDefinitionsLoop([best_match |-> None, best_confidence |-> ConfZero],
                                     field_definitions, excel_header) IN
    IF IsSome(best.best_match) THEN Some(<<best.best_match.v, best.best_confidence>>)
    ELSE None

\* HashMap::get on field_definitions
GetFieldDefinition(field_definitions, field_name) ==
    LET S == {i \in 1..Len(field_definitions) : field_definitions[i][1] = field_name} IN
    IF S = {} THEN None ELSE Some(field_definitions[MinIndex(S)][2])

\* The loop of convert_headers_with_enhanced_map; acc is the
\* HeaderConversionResult under construction
RECURSIVE ConvertHeadersLoop(_, _, _)
ConvertHeadersLoop(acc, excel_headers, field_definitions) ==
    IF excel_headers = <<>> THEN acc
    ELSE LET excel_header == Head(excel_headers)
             found == find_best_field_match(excel_header, field_definitions) IN
         ConvertHeadersLoop(
             IF IsSome(found)
             THEN LET field_def == GetFieldDefinition(field_definitions, found.v[1]) IN
                  [acc EXCEPT
                      !.converted_headers = Insert(@, excel_header, found.v[1]),
                      !.mapping_confidence = Insert(@, excel_header, found.v[2]),
                      !.applied_transformations =
                          IF IsSome(field_def) /\ IsSome(field_def.v.transformations)
                          THEN Insert(@, excel_header,
                                      Join(field_def.v.transformations.v, <<",", " ">>))
                          ELSE @]
             ELSE [acc EXCEPT !.validation_errors =
                                  Append(@, [field |-> excel_header, severity |-> "Warning"])],
             Tail(excel_headers), field_definitions)

convert_headers_with_enhanced_map(excel_headers, field_definitions) ==
    ConvertHeadersLoop([converted_headers |-> EmptyMap, applied_transformations |-> EmptyMap,
                        validation_errors |-> <<>>, mapping_confidence |-> EmptyMap],
                       excel_headers, field_definitions)

\* create_field_definition_from_mapping: one case-insensitive Exact mapping
\* of priority 100 on the migrated header
create_field_definition_from_mapping(excel_header, internal_field) ==
    FieldDefinition(<<XlsxMapping(excel_header, "Exact", 100, FALSE)>>, None)

\* HashMap::insert on field_definitions kept as a sequence: an existing entry
\* keeps its place and takes the new value
InsertFieldDefinition(field_definitions, field_name, field_def) ==
    IF \E i \in 1..Len(field_definitions) : field_definitions[i][1] = field_name
    THEN AsSeq([i \in 1..Len(field_definitions) |->
                   IF field_definitions[i][1] = field_name THEN <<field_name, field_def>>
                   ELSE field_definitions[i]])
    ELSE Append(field_definitions, <<field_name, field_def>>)

\* upgrade_simple_to_enhanced: the field_definitions built from the simple
\* mappings, iterating like the simple map
RECURSIVE upgrade_simple_to_enhanced(_)
upgrade_simple_to_enhanced(mappings) ==
    IF mappings = <<>> THEN <<>>
    ELSE LET last == mappings[Len(mappings)] IN
         InsertFieldDefinition(upgrade_simple_to_enhanced(SubSeq(mappings, 1, Len(mappings) - 1)),
                               last[2],
                               create_field_definition_from_mapping(last[1], last[2]))

-----------------------------------------------------------------------------
(* normalize_link_speed *)

\* str::replace(pat, ""): every non-overlapping occurrence of pat, left to
\* right, is removed
RECURSIVE RemoveAll(_, _)
RemoveAll(s, pat) ==
    IF Len(s) < Len(pat) THEN s
    ELSE IF SubSeq(s, 1, Len(pat)) = pat
    THEN RemoveAll(SubSeq(s, Len(pat) + 1, Len(s)), pat)
    ELSE <<Head(s)>> \o RemoveAll(Tail(s), pat)

Digits == {"0", "1", "2", "3", "4", "5", "6", "7", "8", "9"}

\* char::is_ascii_digit
IsAsciiDigit(c) == c \in Digits

SelectNonWhitespace(s) == SelectSeq(s, LAMBDA c : ~IsWhitespace(c))

normalize_link_speed(speed_in) ==
    LET speed == to_lowercase(Trim(speed_in))
        is_mbps == Contains(speed, <<"m", "b", "p", "s">>) \/ Contains(speed, <<"m", "b">>)
        is_gbps == Contains(speed, <<"g", "b", "p", "s">>) \/ Contains(speed, <<"g", "b">>)
        stripped == RemoveAll(RemoveAll(RemoveAll(RemoveAll(speed, <<"g", "b", "p", "s">>),
                                                  <<"m", "b", "p", "s">>), <<"g", "b">>), <<"m", "b">>)
        numeric_part == SelectNonWhitespace(stripped)
    IN  IF is_mbps THEN numeric_part \o <<"M">>
        ELSE IF is_gbps THEN numeric_part \o <<"G">>
        ELSE IF (\A i \in 1..Len(numeric_part) : IsAsciiDigit(numeric_part[i]))
                /\ numeric_part # <<>>
        THEN numeric_part \o <<"G">>
        ELSE IF numeric_part # <<>> /\ numeric_part[Len(numeric_part)] = "g"
        THEN [numeric_part EXCEPT ![Len(numeric_part)] = "G"]
        ELSE IF numeric_part # <<>> /\ numeric_part[Len(numeric_part)] = "m"
        THEN [numeric_part EXCEPT ![Len(numeric_part)] = "M"]
        ELSE numeric_part

-----------------------------------------------------------------------------
(* convert_to_network_config_row *)

\* The get_field closure without the trimmed-emptiness filter
get_field_unfiltered(row_data, field_map, field_name) ==
    IF field_name \in DOMAIN field_map /\ field_map[field_name] \in DOMAIN row_data
    THEN Some(row_data[field_map[field_name]])
    ELSE None

\* The get_field closure: the row's value under the header mapped to the
\* field, None when the field is unmapped, the header is missing from the
\* row, or the value is blank after trimming
get_field(row_data, field_map, field_name) ==
    IF /\ field_name \in DOMAIN field_map
       /\ field_map[field_name] \in DOMAIN row_data
       /\ Trim(row_data[field_map[field_name]]) # <<>>
    THEN Some(row_data[field_map[field_name]])
    ELSE None

\* The match on the lower-cased is_external text
parse_is_external(o) ==
    IF ~IsSome(o) THEN None
    ELSE LET s == to_lowercase(o.v) IN
         IF s \in {<<"t", "r", "u", "e">>, <<"y", "e", "s">>, <<"1">>, <<"y">>} THEN Some(TRUE)
         ELSE IF s \in {<<"f", "a", "l", "s", "e">>, <<"n", "o">>, <<"0">>, <<"n">>} THEN Some(FALSE)
         ELSE None

MapNormalizeSpeed(o) == IF IsSome(o) THEN Some(normalize_link_speed(o.v)) ELSE None

\* Returns None for a skipped row, Some(NetworkConfigRow) otherwise
convert_to_network_config_row(row_data, field_map) ==
    LET switch_label == get_field(row_data, field_map, "switch_label")
        switch_ifname == get_field(row_data, field_map, "switch_ifname") IN
    IF ~IsSome(switch_label) /\ ~IsSome(switch_ifname) THEN None
    ELSE Some([
        blueprint |-> None,
        server_label |-> get_field(row_data, field_map, "server_label"),
        is_external |-> parse_is_external(get_field(row_data, field_map, "is_external")),
        server_tags |-> get_field(row_data, field_map, "server_tags"),
        link_group_ifname |-> get_field(row_data, field_map, "link_group_ifname"),
        link_group_lag_mode |-> get_field(row_data, field_map, "link_group_lag_mode"),
        link_group_ct_names |-> get_field(row_data, field_map, "link_group_ct_names"),
        link_group_tags |-> get_field(row_data, field_map, "link_group_tags"),
        link_speed |-> MapNormalizeSpeed(get_field(row_data, field_map, "link_speed")),
        server_ifname |-> get_field(row_data, field_map, "server_ifname"),
        switch_label |-> switch_label,
        switch_ifname |-> switch_ifname,
        link_tags |-> get_field(row_data, field_map, "link_tags"),
        comment |-> get_field(row_data, field_map, "comment")])

-----------------------------------------------------------------------------
(* apply_intelligent_merged_cell_detection *)

\* The inner loop with the carry taken from the previous row only (a carry
\* that is forgotten when a row leaves the cell empty)
MergeRowPreviousOnly(data_row, column_carry_values) ==
    LET trimmed == AsSeq([c \in 1..Len(data_row) |-> Trim(to_string(data_row[c]))]) IN
    << AsSeq([c \in 1..Len(data_row) |->
           IF trimmed[c] # <<>> THEN trimmed[c]
           ELSE IF IsSome(column_carry_values[c]) THEN column_carry_values[c].v
           ELSE trimmed[c]]),
       AsSeq([c \in 1..Len(column_carry_values) |->
           IF c <= Len(data_row) /\ trimmed[c] # <<>> THEN Some(trimmed[c])
           ELSE None]) >>

\* The inner loop over the cells of one row: a non-empty (trimmed) value
\* becomes the carry of its column, an empty one takes the carry if there is
\* one.  Returns <<row_values, column_carry_values>>.
MergeRow(data_row, column_carry_values) ==
    LET trimmed == AsSeq([c \in 1..Len(data_row) |-> Trim(to_string(data_row[c]))]) IN
    << AsSeq([c \in 1..Len(data_row) |->
           IF trimmed[c] # <<>> THEN trimmed[c]
           ELSE IF IsSome(column_carry_values[c]) THEN column_carry_values[c].v
           ELSE trimmed[c]]),
       AsSeq([c \in 1..Len(column_carry_values) |->
           IF c <= Len(data_row) /\ trimmed[c] # <<>> THEN Some(trimmed[c])
           ELSE column_carry_values[c]]) >>

\* The outer loop: the row_values of every data row, in order.  The rows of
\* a calamine Range all have the width of the header row, so col_idx always
\* indexes column_carry_values and headers.
RECURSIVE MergeRows(_, _)
MergeRows(data_rows, column_carry_values) ==
    IF data_rows = <<>> THEN <<>>
    ELSE LET r == MergeRow(Head(data_rows), column_carry_values) IN
         <<r[1]>> \o MergeRows(Tail(data_rows), r[2])

\* row_data: the HashMap from header to value built column by column (a
\* later column with the same header overwrites an earlier one)
RECURSIVE RowDataLoop(_, _, _, _)
RowDataLoop(row_data, row_values, headers, col_idx) ==
    IF col_idx > Len(row_values) THEN row_data
    ELSE RowDataLoop(Insert(row_data, headers[col_idx], row_values[col_idx]),
                     row_values, headers, col_idx + 1)

RowData(row_values, headers) == RowDataLoop(EmptyMap, row_values, headers, 1)

\* The row_values (local of the loop body) of every data row
merged_row_values(data_rows, headers) ==
    MergeRows(data_rows, AsSeq([c \in 1..Len(headers) |-> None]))

apply_intelligent_merged_cell_detection(data_rows, headers) ==
    LET values == merged_row_values(data_rows, headers) IN
    AsSeq([r \in 1..Len(values) |-> RowData(values[r], headers)])

-----------------------------------------------------------------------------
(* parse_worksheet_data *)

\* header_row_idx (0-based): from the conversion map, header_row defaulting
\* to 1 and saturating at 0; without a map, the first row with a non-empty
\* cell, or 0
header_row_index(worksheet_rows, conversion_map) ==
    IF IsSome(conversion_map)
    THEN LET h == IF IsSome(conversion_map.v.header_row)
                  THEN conversion_map.v.header_row.v ELSE 1 IN
         IF h >= 1 THEN h - 1 ELSE 0
    ELSE LET S == {i \in 1..Len(worksheet_rows) :
                      \E c \in 1..Len(worksheet_rows[i]) : ~IsEmpty(worksheet_rows[i][c])} IN
         IF S = {} THEN 0 ELSE MinIndex(S) - 1

extract_headers(header_row) ==
    LET p == propagate_merged_cells_in_row(header_row) IN
    AsSeq([c \in 1..Len(p) |-> Trim(to_string(p[c]))])

\* The loop over data_rows_with_merges.  Returns the accepted rows and the
\* sheet row numbers written to log::warn for the rows that
\* convert_to_network_config_row refused; a row whose values are all blank is
\* skipped without a log line.
RECURSIVE ConvertLoop(_, _, _, _, _)
ConvertLoop(data_rows_with_merges, field_map, header_row_idx, row_idx, acc) ==
    IF row_idx >= Len(data_rows_with_merges) THEN acc
    ELSE LET row_data == data_rows_with_merges[row_idx + 1] IN
         IF \A h \in DOMAIN row_data : Trim(row_data[h]) = <<>>
         THEN ConvertLoop(data_rows_with_merges, field_map, header_row_idx, row_idx + 1, acc)
         ELSE LET network_row == convert_to_network_config_row(row_data, field_map) IN
              ConvertLoop(data_rows_with_merges, field_map, header_row_idx, row_idx + 1,
                  IF IsSome(network_row)
                  THEN [acc EXCEPT !.rows = Append(@, network_row.v)]
                  ELSE [acc EXCEPT !.warned = Append(@, row_idx + header_row_idx + 2)])

\* Everything parse_worksheet_data computes: the locals headers, field_map and
\* data_rows_with_merges, the returned rows and the log::warn lines
parse_worksheet_data(worksheet_rows, conversion_map) ==
    LET empty_result == [headers |-> <<>>, field_map |-> EmptyMap, data_rows |-> <<>>,
                         merged_values |-> <<>>, data_rows_with_merges |-> <<>>,
                         rows |-> <<>>, warned |-> <<>>]
        header_row_idx == header_row_index(worksheet_rows, conversion_map) IN
    IF worksheet_rows = <<>> THEN empty_result
    ELSE IF header_row_idx >= Len(worksheet_rows) THEN empty_result
    ELSE LET headers == extract_headers(worksheet_rows[header_row_idx + 1])
             field_map == IF IsSome(conversion_map)
                          THEN create_conversion_field_mapping(headers,
                                                               conversion_map.v.mappings)
                          ELSE create_field_mapping(headers)
             data_rows == SubSeq(worksheet_rows, header_row_idx + 2, Len(worksheet_rows))
             data_rows_with_merges ==
                 apply_intelligent_merged_cell_detection(data_rows, headers)
             looped == ConvertLoop(data_rows_with_merges, field_map, header_row_idx, 0,
                                   [rows |-> <<>>, warned |-> <<>>])
         IN  [headers |-> headers, field_map |-> field_map, data_rows |-> data_rows,
              merged_values |-> merged_row_values(data_rows, headers),
              data_rows_with_merges |-> data_rows_with_merges,
              rows |-> looped.rows, warned |-> looped.warned]

-----------------------------------------------------------------------------
(* TransformationEngine: the built-in functions *)

\* str::to_uppercase on ASCII: the letters that are the lower-case form of
\* an upper-case letter change, other characters do not
to_uppercase(s) ==
    LET Upper(c) == IF \E u \in UpperLetters : LowerTable[u] = c
                    THEN CHOOSE u \in UpperLetters : LowerTable[u] = c
                    ELSE c IN
    AsSeq([i \in 1..Len(s) |-> Upper(s[i])])

\* str::ends_with
EndsWith(s, suffix) ==
    Len(s) >= Len(suffix) /\ SubSeq(s, Len(s) - Len(suffix) + 1, Len(s)) = suffix

\* str::replace(pat, to) for a non-empty pat: every non-overlapping
\* occurrence, left to right
RECURSIVE ReplaceAll(_, _, _)
ReplaceAll(s, pat, to) ==
    IF Len(s) < Len(pat) THEN s
    ELSE IF SubSeq(s, 1, Len(pat)) = pat
    THEN to \o ReplaceAll(SubSeq(s, Len(pat) + 1, Len(s)), pat, to)
    ELSE <<Head(s)>> \o ReplaceAll(Tail(s), pat, to)

\* chars().take_while(|c| c is one of chars).collect()
RECURSIVE TakeWhile(_, _)
TakeWhile(s, chars) ==
    IF s = <<>> \/ Head(s) \notin chars THEN <<>>
    ELSE <<Head(s)>> \o TakeWhile(Tail(s), chars)

\* A string of digits without its leading zeros ("0" for zero): the text
\* that format!("{}", n) prints for the number the digits denote
RECURSIVE Canonical(_)
Canonical(digits) ==
    IF Len(digits) > 1 /\ Head(digits) = "0" THEN Canonical(Tail(digits)) ELSE digits

\* Order of two canonical digit strings as numbers
RECURSIVE DecimalLess(_, _)
DecimalLess(a, b) ==
    LET digit_order == <<"0", "1", "2", "3", "4", "5", "6", "7", "8", "9">>
        value(c) == CHOOSE i \in 1..10 : digit_order[i] = c IN
    IF Len(a) # Len(b) THEN Len(a) < Len(b)
    ELSE IF a = <<>> THEN FALSE
    ELSE IF Head(a) # Head(b) THEN value(Head(a)) < value(Head(b))
    ELSE DecimalLess(Tail(a), Tail(b))

\* str::parse::<u32>: an optional '+', then one or more digits, the number at
\* most u32::MAX.  Returns None or Some(the number in canonical digits).
parse_u32(s) ==
    LET digits == IF s # <<>> /\ Head(s) = "+" THEN Tail(s) ELSE s IN
    IF digits = <<>> \/ \E i \in 1..Len(digits) : ~IsAsciiDigit(digits[i]) THEN None
    ELSE IF DecimalLess(<<"4", "2", "9", "4", "9", "6", "7", "2", "9", "5">>, Canonical(digits)) THEN None
    ELSE Some(Canonical(digits))

\* str::parse::<f32> of a string of digits and dots followed by the cast
\* "as u32": digits with at most one dot and at least one digit parse, and
\* the cast truncates to the integer part.  Exact while the integer part has
\* at most 7 digits (below 2^24), which holds for the speeds used here.
parse_f32_as_u32(s) ==
    LET dots == {i \in 1..Len(s) : s[i] = "."}
        int_part == IF dots = {} THEN s ELSE SubSeq(s, 1, MinIndex(dots) - 1) IN
    IF Cardinality(dots) > 1 \/ Len(s) - Cardinality(dots) = 0 THEN None
    ELSE Some(IF int_part = <<>> THEN <<"0">> ELSE Canonical(int_part))

\* Normalized is the function's body on speed_clean, the trimmed upper-case
\* speed; num_part is the parsed leading number and num the parsed whole
normalize_speed_value(speed) ==
    LET Normalized(speed_clean, num_part, num) ==
            IF (EndsWith(speed_clean, <<"G", "B", "P", "S">>) \/ EndsWith(speed_clean, <<"G", "B">>))
               /\ IsSome(num_part)
            THEN num_part.v \o <<"G">>
            ELSE IF (EndsWith(speed_clean, <<"M", "B", "P", "S">>) \/ EndsWith(speed_clean, <<"M", "B">>))
                    /\ IsSome(num_part)
            THEN num_part.v \o <<"M">>
            ELSE IF IsSome(num) THEN num.v \o <<"G">>
            ELSE IF speed_clean = <<"1", "0", "0", "0">> THEN <<"1", "G">>
            ELSE IF speed_clean = <<"1", "0", "0", "0", "0">> THEN <<"1", "0", "G">>
            ELSE IF speed_clean = <<"2", "5", "0", "0", "0">> THEN <<"2", "5", "G">>
            ELSE IF speed_clean = <<"4", "0", "0", "0", "0">> THEN <<"4", "0", "G">>
            ELSE IF speed_clean = <<"1", "0", "0", "0", "0", "0">> THEN <<"1", "0", "0", "G">>
            ELSE IF EndsWith(speed_clean, <<"G">>) \/ EndsWith(speed_clean, <<"M">>)
            THEN speed_clean
            ELSE speed
        Cleaned(speed_clean) ==
            Normalized(speed_clean,
                       parse_f32_as_u32(TakeWhile(speed_clean, Digits \cup {"."})),
                       parse_u32(speed_clean)) IN
    IF speed = <<>> THEN speed ELSE Cleaned(to_uppercase(Trim(speed)))

\* Prefix is the function's match on normalized_speed; numeric_part is the
\* parsed run of leading digits
determine_interface_prefix(speed) ==
    LET Prefix(normalized_speed, numeric_part) ==
            IF normalized_speed \in {<<"1", "G">>, <<"1", "0", "0", "0", "M">>} THEN <<"g", "e">>
            ELSE IF normalized_speed \in {<<"1", "0", "G">>, <<"1", "0", "0", "0", "0", "M">>} THEN <<"x", "e">>
            ELSE IF normalized_speed \in {<<"2", "5", "G">>, <<"2", "5", "0", "0", "0", "M">>, <<"4", "0", "G">>, <<"4", "0", "0", "0", "0", "M">>, <<"1", "0", "0", "G">>,
                                          <<"1", "0", "0", "0", "0", "0", "M">>} THEN <<"e", "t">>
            ELSE IF IsSome(numeric_part)
            THEN IF EndsWith(normalized_speed, <<"G">>)
                 THEN IF numeric_part.v = <<"1">> THEN <<"g", "e">>
                      ELSE IF numeric_part.v = <<"1", "0">> THEN <<"x", "e">>
                      ELSE IF numeric_part.v \in {<<"2", "5">>, <<"4", "0">>, <<"1", "0", "0">>} THEN <<"e", "t">>
                      ELSE IF DecimalLess(<<"1", "0">>, numeric_part.v) THEN <<"e", "t">>
                      ELSE <<"g", "e">>
                 ELSE <<"g", "e">>
            ELSE <<"g", "e">>
        OfNormalized(normalized_speed) ==
            Prefix(normalized_speed, parse_u32(TakeWhile(normalized_speed, Digits))) IN
    OfNormalized(normalize_speed_value(speed))

is_numeric_port(input) == IsSome(parse_u32(Trim(input)))

\* HashMap::get on a map kept as a sequence of <<key, value>>
GetEntry(map, key) ==
    LET S == {i \in 1..Len(map) : map[i][1] = key} IN
    IF S = {} THEN None ELSE Some(map[MinIndex(S)][2])

\* Result<String, String>
Ok(v) == [ok |-> TRUE, v |-> v, err |-> ""]

Err(e) == [ok |-> FALSE, v |-> <<>>, err |-> e]

\* The function without the test that the input is a port number: every
\* input is given a prefix
generate_interface_name_unchecked(input, context) ==
    LET found == IF IsSome(context) THEN GetEntry(context.v, <<"l", "i", "n", "k", "_", "s", "p", "e", "e", "d">>) ELSE None
        speed == IF IsSome(found) THEN found.v ELSE <<>> IN
    Ok(determine_interface_prefix(speed) \o <<"-", "0", "/", "0", "/">> \o Trim(input))

\* context is None or Some(map as a sequence of <<field, value>>)
generate_interface_name(input, context) ==
    IF ~is_numeric_port(input) THEN Ok(input)
    ELSE LET port_num == parse_u32(Trim(input)).v
             found == IF IsSome(context) THEN GetEntry(context.v, <<"l", "i", "n", "k", "_", "s", "p", "e", "e", "d">>) ELSE None
             speed == IF IsSome(found) THEN found.v ELSE <<>>
             interface_prefix == determine_interface_prefix(speed) IN
         Ok(interface_prefix \o <<"-", "0", "/", "0", "/">> \o port_num)

\* The conversion with the input compared as it is written
convert_lag_mode_value_verbatim(input) ==
    IF input \in {<<"y", "e", "s">>, <<"y">>, <<"t", "r", "u", "e">>, <<"1">>, <<"l", "a", "c", "p">>} THEN <<"l", "a", "c", "p", "_", "a", "c", "t", "i", "v", "e">>
    ELSE IF input \in {<<"n", "o">>, <<"n">>, <<"f", "a", "l", "s", "e">>, <<"0">>} THEN <<"n", "o", "n", "e">>
    ELSE input

convert_lag_mode_value(input) ==
    IF input = <<>> THEN input
    ELSE LET input_clean == to_lowercase(Trim(input)) IN
         IF input_clean \in {<<"y", "e", "s">>, <<"y">>, <<"t", "r", "u", "e">>, <<"1">>} THEN <<"l", "a", "c", "p", "_", "a", "c", "t", "i", "v", "e">>
         ELSE IF input_clean \in {<<"n", "o">>, <<"n">>, <<"f", "a", "l", "s", "e">>, <<"0">>} THEN <<"n", "o", "n", "e">>
         ELSE IF input_clean \in {<<"l", "a", "c", "p", "_", "a", "c", "t", "i", "v", "e">>, <<"s", "t", "a", "t", "i", "c">>, <<"n", "o", "n", "e">>} THEN input_clean
         ELSE IF input_clean = <<"l", "a", "c", "p">> THEN <<"l", "a", "c", "p", "_", "a", "c", "t", "i", "v", "e">>
         ELSE input

-----------------------------------------------------------------------------
(* TransformationEngine: apply_transformation;                               *)
(* EnhancedConversionService: apply_field_transformations                    *)

\* serde_json::Value: kind is "String", "Bool", "Number" (a u64) or "Object"
\* (members all strings, as a sequence of <<key, string>>)
JValue(kind, v) == [kind |-> kind, v |-> v]

\* Value::as_str, as_bool, as_u64 and as_object
As(value, kind) == IF value.kind = kind THEN Some(value.v) ELSE None

\* Option::unwrap_or
unwrap_or(opt, default) == IF IsSome(opt) THEN opt.v ELSE default

\* A TransformationRule is [conditions, logic]: conditions is None or
\* Some(the map as a sequence of <<key, value>>), and logic is one of
\* [type |-> "ValueMap", mappings], [type |-> "Template", template],
\* [type |-> "Function", name] and [type |-> "Pipeline", steps], a step
\* being [step_type, parameters].

\* The names register_builtin_functions registers
BuiltinFunctions ==
    {<<"g", "e", "n", "e", "r", "a", "t", "e", "_", "i", "n", "t", "e", "r", "f", "a", "c", "e", "_", "n", "a", "m", "e">>, <<"n", "o", "r", "m", "a", "l", "i", "z", "e", "_", "s", "p", "e", "e", "d">>, <<"l", "a", "g", "_", "m", "o", "d", "e", "_", "c", "o", "n", "v", "e", "r", "s", "i", "o", "n">>,
     <<"t", "r", "i", "m", "_", "w", "h", "i", "t", "e", "s", "p", "a", "c", "e">>, <<"t", "o", "_", "u", "p", "p", "e", "r", "c", "a", "s", "e">>, <<"t", "o", "_", "l", "o", "w", "e", "r", "c", "a", "s", "e">>}

\* The closure registered under a name of BuiltinFunctions
CallFunction(name, input, context) ==
    IF name = <<"g", "e", "n", "e", "r", "a", "t", "e", "_", "i", "n", "t", "e", "r", "f", "a", "c", "e", "_", "n", "a", "m", "e">> THEN generate_interface_name(input, context)
    ELSE IF name = <<"n", "o", "r", "m", "a", "l", "i", "z", "e", "_", "s", "p", "e", "e", "d">> THEN Ok(normalize_speed_value(input))
    ELSE IF name = <<"l", "a", "g", "_", "m", "o", "d", "e", "_", "c", "o", "n", "v", "e", "r", "s", "i", "o", "n">> THEN Ok(convert_lag_mode_value(input))
    ELSE IF name = <<"t", "r", "i", "m", "_", "w", "h", "i", "t", "e", "s", "p", "a", "c", "e">> THEN Ok(Trim(input))
    ELSE IF name = <<"t", "o", "_", "u", "p", "p", "e", "r", "c", "a", "s", "e">> THEN Ok(to_uppercase(input))
    ELSE Ok(to_lowercase(input))

\* conditions is the map as a sequence of <<key, value>>; Holds is the body
\* of the loop for one entry
evaluate_conditions(conditions, input, context) ==
    LET Holds(condition_key, condition_value) ==
            IF condition_key = <<"i", "n", "p", "u", "t", "_", "t", "y", "p", "e">>
            THEN /\ unwrap_or(As(condition_value, "String"), <<>>) = <<"n", "u", "m", "e", "r", "i", "c", "_", "p", "o", "r", "t">>
                 /\ is_numeric_port(input)
            ELSE IF condition_key = <<"h", "a", "s", "_", "s", "p", "e", "e", "d", "_", "d", "a", "t", "a">>
            THEN unwrap_or(As(condition_value, "Bool"), FALSE)
                 => /\ IsSome(context)
                    /\ unwrap_or(GetEntry(context.v, <<"l", "i", "n", "k", "_", "s", "p", "e", "e", "d">>), <<>>) # <<>>
            ELSE IF condition_key = <<"m", "i", "n", "_", "l", "e", "n", "g", "t", "h">>
            THEN ~(Len(input) < unwrap_or(As(condition_value, "Number"), 0))
            ELSE IF condition_key = <<"m", "a", "x", "_", "l", "e", "n", "g", "t", "h">>
            THEN ~(Len(input) > unwrap_or(As(condition_value, "Number"), 0))
            ELSE TRUE IN
    \A i \in 1..Len(conditions) : Holds(conditions[i][1], conditions[i][2])

\* The loop over the context entries of apply_template_transformation
RECURSIVE TemplateContextLoop(_, _)
TemplateContextLoop(result, ctx) ==
    IF ctx = <<>> THEN result
    ELSE TemplateContextLoop(
             ReplaceAll(result, <<"{">> \o Head(ctx)[1] \o <<"}">>, Head(ctx)[2]), Tail(ctx))

apply_template_transformation(template, input, context) ==
    LET result == ReplaceAll(template, <<"{", "i", "n", "p", "u", "t", "}">>, input) IN
    Ok(IF IsSome(context) THEN TemplateContextLoop(result, context.v) ELSE result)

apply_transformation_step(step_type, input, parameters, context) ==
    IF step_type = <<"f", "u", "n", "c", "t", "i", "o", "n">>
    THEN LET name == GetEntry(parameters, <<"n", "a", "m", "e">>)
             func_name == IF IsSome(name) THEN As(name.v, "String") ELSE None IN
         IF IsSome(func_name)
         THEN IF func_name.v \in BuiltinFunctions
              THEN CallFunction(func_name.v, input, context)
              ELSE Err("Unknown function in pipeline")
         ELSE Err("Function step missing 'name' parameter")
    ELSE IF step_type = <<"t", "e", "m", "p", "l", "a", "t", "e">>
    THEN LET found == GetEntry(parameters, <<"t", "e", "m", "p", "l", "a", "t", "e">>)
             template == IF IsSome(found) THEN As(found.v, "String") ELSE None IN
         IF IsSome(template)
         THEN apply_template_transformation(template.v, input, context)
         ELSE Err("Template step missing 'template' parameter")
    ELSE IF step_type = <<"v", "a", "l", "u", "e", "_", "m", "a", "p">>
    THEN LET found == GetEntry(parameters, <<"m", "a", "p", "p", "i", "n", "g", "s">>)
             mappings_obj == IF IsSome(found) THEN As(found.v, "Object") ELSE None IN
         IF IsSome(mappings_obj)
         THEN Ok(unwrap_or(GetEntry(mappings_obj.v, input), input))
         ELSE Err("Value map step missing 'mappings' parameter")
    ELSE Err("Unknown transformation step type")

\* The loop of the Pipeline arm: the first failing step ends it with that
\* step's error
RECURSIVE PipelineLoop(_, _, _)
PipelineLoop(current_value, steps, context) ==
    IF steps = <<>> THEN Ok(current_value)
    ELSE LET step == Head(steps)
             r == apply_transformation_step(step.step_type, current_value,
                                            step.parameters, context) IN
         IF r.ok THEN PipelineLoop(r.v, Tail(steps), context) ELSE r

\* The match on rule.logic; a value map is a sequence of <<key, value>> in
\* the iteration order of the HashMap
ApplyLogic(logic, input, context) ==
    IF logic.type = "ValueMap"
    THEN LET exact == GetEntry(logic.mappings, input)
             S == {i \in 1..Len(logic.mappings) :
                      to_lowercase(logic.mappings[i][1]) = to_lowercase(input)} IN
         IF IsSome(exact) THEN Ok(exact.v)
         ELSE IF S # {} THEN Ok(logic.mappings[MinIndex(S)][2])
         ELSE Ok(input)
    ELSE IF logic.type = "Template"
    THEN apply_template_transformation(logic.template, input, context)
    ELSE IF logic.type = "Function"
    THEN IF logic.name \in BuiltinFunctions THEN CallFunction(logic.name, input, context)
         ELSE Err("Unknown transformation function")
    ELSE PipelineLoop(input, logic.steps, context)

\* apply_transformation without its condition gate
apply_transformation_ungated(rule, input, context) ==
    ApplyLogic(rule.logic, input, context)

apply_transformation(rule, input, context) ==
    IF IsSome(rule.conditions) /\ ~evaluate_conditions(rule.conditions.v, input, context)
    THEN Ok(input)
    ELSE ApplyLogic(rule.logic, input, context)

\* The context handed to every rule: the sibling values already rewritten
FieldContextRewritten(field_data, transformed_data) ==
    AsSeq([i \in 1..Len(field_data) |->
              IF field_data[i][1] \in DOMAIN transformed_data
              THEN <<field_data[i][1], transformed_data[field_data[i][1]]>>
              ELSE field_data[i]])

\* The context handed to every rule: Some(field_data)
FieldContext(field_data, transformed_data) == field_data

\* The loop over the transformations of one field, ended by the first rule
\* that returns an error
RECURSIVE TransformationsLoopAbort(_, _, _, _)
TransformationsLoopAbort(transformed_value, transformations, transformation_rules, context) ==
    IF transformations = <<>> THEN transformed_value
    ELSE LET rule == GetEntry(transformation_rules, Head(transformations)) IN
         IF IsSome(rule)
         THEN LET r == apply_transformation(rule.v, transformed_value, Some(context)) IN
              IF r.ok
              THEN TransformationsLoopAbort(r.v, Tail(transformations), transformation_rules,
                                            context)
              ELSE transformed_value
         ELSE TransformationsLoopAbort(transformed_value, Tail(transformations),
                                       transformation_rules, context)

\* The loop over the transformations of one field: a missing rule and a
\* rule that returns an error are logged, and the loop goes on
RECURSIVE TransformationsLoop(_, _, _, _)
TransformationsLoop(transformed_value, transformations, transformation_rules, context) ==
    IF transformations = <<>> THEN transformed_value
    ELSE LET rule == GetEntry(transformation_rules, Head(transformations)) IN
         IF IsSome(rule)
         THEN LET r == apply_transformation(rule.v, transformed_value, Some(context)) IN
              TransformationsLoop(IF r.ok THEN r.v ELSE transformed_value,
                                  Tail(transformations), transformation_rules, context)
         ELSE TransformationsLoop(transformed_value, Tail(transformations),
                                  transformation_rules, context)

\* The loop over field_data; todo is the part of field_data not yet processed
RECURSIVE FieldDataLoop(_, _, _, _)
FieldDataLoop(transformed_data, todo, field_data, enhanced_map) ==
    IF todo = <<>> THEN transformed_data
    ELSE LET field_name == Head(todo)[1]
             value == Head(todo)[2]
             field_def == GetFieldDefinition(enhanced_map.field_definitions, field_name)
             transformed_value ==
                 IF IsSome(field_def) /\ IsSome(field_def.v.transformations)
                 THEN TransformationsLoop(value, field_def.v.transformations.v,
                                          enhanced_map.transformation_rules,
                                          FieldContext(field_data, transformed_data))
                 ELSE value IN
         FieldDataLoop(Insert(transformed_data, field_name, transformed_value), Tail(todo),
                       field_data, enhanced_map)

\* field_data is the map as a sequence of <<field, value>> in iteration
\* order; enhanced_map has field_definitions and transformation_rules
apply_field_transformations(field_data, enhanced_map) ==
    Ok(FieldDataLoop(EmptyMap, field_data, field_data, enhanced_map))

-----------------------------------------------------------------------------
(* RowSpec: propagate_merged_cells_in_row applied to every bounded row *)

MaxCols == 10

RowCells == {Empty, Str(<<"a">>), Str(<<"b">>)}

RECURSIVE SeqsUpTo(_, _)
SeqsUpTo(S, n) ==
    IF n = 0 THEN {<<>>}
    ELSE LET shorter == SeqsUpTo(S, n - 1) IN
         shorter \cup {Append(s, x) : s \in {t \in shorter : Len(t) = n - 1}, x \in S}

\* The variables of the other specifications, at rest
RowIdle == row = <<>> /\ row_result = <<>> /\ row_pc = "idle"

ParseIdle ==
    /\ in_worksheet_rows = <<>> /\ in_conversion_map = None /\ parsed = None
    /\ conv_row_data = EmptyMap /\ conv_field_map = EmptyMap /\ conv_result = None
    /\ parse_pc = "idle"

HdrIdle ==
    /\ hdr_headers = <<>> /\ hdr_mappings = <<>> /\ hdr_enhanced = <<>>
    /\ hdr_result = None /\ hdr_pc = "idle"

XformIdle ==
    /\ xf_transformations = <<>> /\ xf_input = <<>> /\ xf_context = None
    /\ xf_result = None /\ xf_pc = "idle"

FileIdle == RowIdle /\ ParseIdle /\ HdrIdle /\ XformIdle

ValidIdle ==
    /\ val_field_data = <<>> /\ val_enhanced_map = <<>> /\ val_result = None
    /\ val_pc = "idle"

JsonIdle == json_in = None /\ json_result = None /\ json_pc = "idle"

SessionIdle == clients = EmptyMap /\ mutex = 0 /\ commands = <<>> /\ logged_out = {}

AuxIdle == ValidIdle /\ JsonIdle /\ SessionIdle

RowInit ==
    /\ XformIdle
    /\ row \in SeqsUpTo(RowCells, MaxCols)
    /\ row_result = <<>>
    /\ row_pc = "input"
    /\ ParseIdle
    /\ HdrIdle
    /\ AuxIdle

PropagateRow ==
    /\ row_pc = "input"
    /\ row_result' = propagate_merged_cells_in_row(row)
    /\ row_pc' = "done"
    /\ UNCHANGED <<row, parse_vars, hdr_vars, xf_vars, aux_vars>>

RowNext == PropagateRow

RowSpec == RowInit /\ [][RowNext]_vars

-----------------------------------------------------------------------------
(* ParseSpec: parse_worksheet_data on bounded worksheets, and                *)
(* convert_to_network_config_row on bounded rows and field maps              *)

H_SwitchName == <<"S", "w", "i", "t", "c", "h", " ", "N", "a", "m", "e">>

H_Port == <<"P", "o", "r", "t">>

H_HostName == <<"H", "o", "s", "t", " ", "N", "a", "m", "e">>

H_SlotPort == <<"S", "l", "o", "t", "/", "P", "o", "r", "t">>

H_Speed == <<"S", "p", "e", "e", "d", "\n", "(", "G", "B", ")">>

H_External == <<"E", "x", "t", "e", "r", "n", "a", "l">>

\* create_test_conversion_map, in one iteration order of the HashMap
TestMappings ==
    << <<H_SwitchName, "switch_label">>, <<H_Port, "switch_ifname">>,
       <<H_HostName, "server_label">>, <<H_SlotPort, "server_ifname">>,
       <<H_Speed, "link_speed">>, <<H_External, "is_external">> >>

\* A conversion map with those mappings and the headers in the first row
TestConversionMap == Some([header_row |-> Some(1), mappings |-> TestMappings])

MaxDataRows == 3

MaxWideRows == 2

\* Three-column sheets: switch (blank or padded text), port, and host name
\* (two different names)
NarrowHeaderRow == <<Str(H_SwitchName), Str(H_Port), Str(H_HostName)>>

NarrowRows ==
    {<<a, b, c>> : a \in {Str(<<" ">>), Str(<<"s", "1", " ">>)},
                   b \in {Empty, Str(<<"1">>)},
                   c \in {Empty, Str(<<"h", "1">>), Str(<<"h", "2">>)}}

\* Six-column sheets (the headers of create_test_headers): a full row, and
\* the rows with at most two of its cells filled, which include the category
\* rows (more than 5 cells, fewer than 30% non-empty)
WideHeaderRow ==
    <<Str(H_SwitchName), Str(H_Port), Str(H_HostName), Str(H_SlotPort), Str(H_Speed),
      Str(H_External)>>

WideFullRow ==
    <<Str(<<"s", "1">>), Str(<<"1">>), Str(<<"h", "1">>), Str(<<"e", "t", "h", "0">>), Str(<<"2", "5", "G", "B">>), Str(<<"y", "e", "s">>)>>

WideRows ==
    {[c \in 1..6 |-> IF c \in filled THEN WideFullRow[c] ELSE Empty] :
        filled \in {S \in SUBSET (1..6) : Cardinality(S) <= 2 \/ Cardinality(S) = 6}}

Worksheets ==
    {<<NarrowHeaderRow>> \o d : d \in SeqsUpTo(NarrowRows, MaxDataRows)}
    \cup {<<WideHeaderRow>> \o d : d \in SeqsUpTo(WideRows, MaxWideRows)}

\* Conversion maps whose header_row is absent, 0, or the number of a row in
\* or beyond the sheet, and the call without a conversion map
HeaderRowMaps ==
    {None} \cup {Some([header_row |-> h, mappings |-> TestMappings]) :
                    h \in {None, Some(0), Some(1), Some(2), Some(3), Some(4)}}

\* Sheets whose header row follows up to two rows of empty cells and is
\* followed by up to two rows (a full one, a partial one, an empty one);
\* and the sheet without rows
OffsetSheets ==
    LET rows == {<<Str(<<"s", "1", " ">>), Str(<<"1">>), Str(<<"h", "1">>)>>,
                 <<Str(<<"s", "2">>), Str(<<"2">>), Empty>>,
                 <<Empty, Empty, Empty>>} IN
    {<<>>} \cup {above \o <<NarrowHeaderRow>> \o below :
                    above \in SeqsUpTo({<<Empty, Empty, Empty>>}, 2),
                    below \in SeqsUpTo(rows, 2)}

\* Direct calls of convert_to_network_config_row: every field map from a
\* subset of three fields to three headers, every row over a subset of the
\* headers with empty, blank and non-blank values
ConvHeaders == {H_SwitchName, H_Port, H_HostName}

ConvFields == {"switch_label", "switch_ifname", "server_label"}

ConvValues == {<<>>, <<" ">>, <<"x">>}

PartialFunctions(D, R) == UNION {[S -> R] : S \in SUBSET D}

ParseInit ==
    /\ RowIdle
    /\ HdrIdle
    /\ AuxIdle
    /\ XformIdle
    /\ parsed = None
    /\ conv_result = None
    /\ \/ /\ parse_pc = "parse_input"
          /\ in_worksheet_rows \in Worksheets
          /\ in_conversion_map = TestConversionMap
          /\ conv_row_data = EmptyMap
          /\ conv_field_map = EmptyMap
       \/ /\ parse_pc = "parse_input"
          /\ in_worksheet_rows \in OffsetSheets
          /\ in_conversion_map \in HeaderRowMaps
          /\ conv_row_data = EmptyMap
          /\ conv_field_map = EmptyMap
       \/ /\ parse_pc = "convert_input"
          /\ in_worksheet_rows = <<>>
          /\ in_conversion_map = None
          /\ conv_row_data \in PartialFunctions(ConvHeaders, ConvValues)
          /\ conv_field_map \in PartialFunctions(ConvFields, ConvHeaders)

ParseWorksheet ==
    /\ parse_pc = "parse_input"
    /\ parsed' = Some(parse_worksheet_data(in_worksheet_rows, in_conversion_map))
    /\ parse_pc' = "parsed"
    /\ UNCHANGED <<in_worksheet_rows, in_conversion_map, conv_row_data, conv_field_map,
                   conv_result, row_vars, hdr_vars, xf_vars, aux_vars>>

ConvertRow ==
    /\ parse_pc = "convert_input"
    /\ conv_result' = convert_to_network_config_row(conv_row_data, conv_field_map)
    /\ parse_pc' = "converted"
    /\ UNCHANGED <<in_worksheet_rows, in_conversion_map, parsed, conv_row_data,
                   conv_field_map, row_vars, hdr_vars, xf_vars, aux_vars>>

ParseNext == ParseWorksheet \/ ConvertRow

ParseSpec == ParseInit /\ [][ParseNext]_vars

-----------------------------------------------------------------------------
(* HdrSpec: create_conversion_field_mapping and                              *)
(* convert_headers_with_enhanced_map on bounded header lists and maps        *)

\* Headers as they come out of spreadsheets: the keys of the test map, and
\* the same text in another case, with doubled or padding whitespace, with a
\* line break, and with a suffix
HeaderPool ==
    { H_SwitchName, <<"s", "w", "i", "t", "c", "h", " ", " ", "n", "a", "m", "e">>,
      <<"S", "W", "I", "T", "C", "H", "\n", "N", "A", "M", "E">>,
      H_Port, <<"P", "O", "R", "T">>, <<" ", "p", "o", "r", "t", "\r">>,
      <<"P", "o", "r", "t", "2">>, <<"I", "f", "a", "c", "e", "2">>, H_HostName }

K_PortLower == <<"p", "o", "r", "t">>

K_Iface == <<"I", "f", "a", "c", "e">>

\* Simple conversion maps in an iteration order: the identity columns of
\* create_test_conversion_map in two orders, and a map with two keys that
\* differ in case only, in the two orders of those keys
SimpleMaps ==
    { << <<H_SwitchName, "switch_label">>, <<H_Port, "switch_ifname">>,
         <<H_HostName, "server_label">> >>,
      << <<H_HostName, "server_label">>, <<H_Port, "switch_ifname">>,
         <<H_SwitchName, "switch_label">> >>,
      << <<H_Port, "switch_ifname">>, <<K_PortLower, "server_ifname">>,
         <<K_Iface, "server_ifname">> >>,
      << <<K_PortLower, "server_ifname">>, <<K_Iface, "server_ifname">>,
         <<H_Port, "switch_ifname">> >> }

\* An enhanced map with one mapping of each type
MixedFieldDefinitions ==
    << <<"switch_label",
         FieldDefinition(<<XlsxMapping(H_SwitchName, "Exact", 100, FALSE),
                           XlsxMapping(<<"s", "w", "i", "t", "c", "h">>, "Partial", 50, FALSE)>>, None)>>,
       <<"switch_ifname",
         FieldDefinition(<<XlsxMapping(H_Port, "Exact", 100, TRUE),
                           XlsxMapping(H_Port, "Regex", 80, FALSE)>>,
                         Some(<<<<"t", "r", "i", "m", "_", "w", "h", "i", "t", "e", "s", "p", "a", "c", "e">>>>))>>,
       <<"server_ifname",
         FieldDefinition(<<XlsxMapping(<<"I", "f", "a", "c", "e", "1">>, "Fuzzy", 10, FALSE)>>, None)>> >>

\* An enhanced map in which two fields carry the same Partial pattern with
\* different priorities, in one iteration order of the HashMap
TiedFieldDefinitions ==
    << <<"server_ifname",
         FieldDefinition(<<XlsxMapping(K_PortLower, "Partial", 10, FALSE)>>, None)>>,
       <<"switch_ifname",
         FieldDefinition(<<XlsxMapping(K_PortLower, "Partial", 90, FALSE)>>, None)>> >>

\* The same map in the other iteration order
TiedFieldDefinitionsReversed == <<TiedFieldDefinitions[2], TiedFieldDefinitions[1]>>

\* The enhanced maps resolved against a simple map's headers: its upgrade,
\* and with the identity columns of the test map the hand-written ones
EnhancedMaps(mappings) ==
    {upgrade_simple_to_enhanced(mappings)}
    \cup (IF mappings[1][1] = H_SwitchName
          THEN {MixedFieldDefinitions, TiedFieldDefinitions, TiedFieldDefinitionsReversed}
          ELSE {})

MaxHeaders == 2

HeaderLists == SeqsUpTo(HeaderPool, MaxHeaders) \ {<<>>}

HdrInit ==
    /\ RowIdle
    /\ ParseIdle
    /\ XformIdle
    /\ AuxIdle
    /\ hdr_headers \in HeaderLists
    /\ hdr_mappings \in SimpleMaps
    /\ hdr_enhanced \in EnhancedMaps(hdr_mappings)
    /\ hdr_result = None
    /\ hdr_pc = "input"

\* create_conversion_field_mapping on the header list; the result keeps the
\* field map as it stood between the two phases
CreateMapping ==
    /\ hdr_pc = "input"
    /\ hdr_result' = Some([after_phase1 |-> exact_phase(hdr_headers, hdr_mappings),
                           field_map |-> create_conversion_field_mapping(hdr_headers,
                                                                         hdr_mappings)])
    /\ hdr_pc' = "mapped"
    /\ UNCHANGED <<hdr_headers, hdr_mappings, hdr_enhanced, row_vars, parse_vars, xf_vars, aux_vars>>

\* create_conversion_field_mapping on each header alone
ResolveEach ==
    /\ hdr_pc = "input"
    /\ hdr_result' =
           Some(AsSeq([i \in 1..Len(hdr_headers) |->
                   [after_phase1 |-> exact_phase(<<hdr_headers[i]>>, hdr_mappings),
                    field_map |-> create_conversion_field_mapping(<<hdr_headers[i]>>,
                                                                  hdr_mappings)]]))
    /\ hdr_pc' = "resolved_each"
    /\ UNCHANGED <<hdr_headers, hdr_mappings, hdr_enhanced, row_vars, parse_vars, xf_vars, aux_vars>>

\* convert_headers_with_enhanced_map on the header list
ConvertHeaders ==
    /\ hdr_pc = "input"
    /\ hdr_result' = Some(convert_headers_with_enhanced_map(hdr_headers, hdr_enhanced))
    /\ hdr_pc' = "converted_headers"
    /\ UNCHANGED <<hdr_headers, hdr_mappings, hdr_enhanced, row_vars, parse_vars, xf_vars, aux_vars>>

HdrNext == CreateMapping \/ ResolveEach \/ ConvertHeaders

HdrSpec == HdrInit /\ [][HdrNext]_vars

-----------------------------------------------------------------------------
(* XformSpec: apply_transformation on one rule and                           *)
(* apply_field_transformations on one row                                    *)

\* transformation_rules, in one iteration order of the HashMap
TransformationRules ==
    << <<<<"i", "f", "a", "c", "e">>,
         [conditions |-> Some(<< <<<<"i", "n", "p", "u", "t", "_", "t", "y", "p", "e">>, JValue("String", <<"n", "u", "m", "e", "r", "i", "c", "_", "p", "o", "r", "t">>)>> >>),
          logic |-> [type |-> "Function", name |-> <<"g", "e", "n", "e", "r", "a", "t", "e", "_", "i", "n", "t", "e", "r", "f", "a", "c", "e", "_", "n", "a", "m", "e">>]]>>,
       <<<<"i", "f", "a", "c", "e", "_", "p", "l", "a", "i", "n">>,
         [conditions |-> None,
          logic |-> [type |-> "Function", name |-> <<"g", "e", "n", "e", "r", "a", "t", "e", "_", "i", "n", "t", "e", "r", "f", "a", "c", "e", "_", "n", "a", "m", "e">>]]>>,
       <<<<"i", "f", "a", "c", "e", "_", "s", "p", "e", "e", "d">>,
         [conditions |-> Some(<< <<<<"h", "a", "s", "_", "s", "p", "e", "e", "d", "_", "d", "a", "t", "a">>, JValue("Bool", TRUE)>>,
                                 <<<<"n", "o", "t", "e">>, JValue("String", <<"x">>)>> >>),
          logic |-> [type |-> "Function", name |-> <<"g", "e", "n", "e", "r", "a", "t", "e", "_", "i", "n", "t", "e", "r", "f", "a", "c", "e", "_", "n", "a", "m", "e">>]]>>,
       <<<<"l", "a", "g">>,
         [conditions |-> None,
          logic |-> [type |-> "Function", name |-> <<"l", "a", "g", "_", "m", "o", "d", "e", "_", "c", "o", "n", "v", "e", "r", "s", "i", "o", "n">>]]>>,
       <<<<"u", "p", "p", "e", "r">>,
         [conditions |-> None, logic |-> [type |-> "Function", name |-> <<"t", "o", "_", "u", "p", "p", "e", "r", "c", "a", "s", "e">>]]>>,
       <<<<"u", "n", "k", "n", "o", "w", "n", "_", "f", "n">>,
         [conditions |-> None, logic |-> [type |-> "Function", name |-> <<"n", "o", "_", "s", "u", "c", "h", "_", "f", "n">>]]>>,
       <<<<"g", "a", "t", "e", "d", "_", "u", "n", "k", "n", "o", "w", "n">>,
         [conditions |-> Some(<< <<<<"m", "i", "n", "_", "l", "e", "n", "g", "t", "h">>, JValue("Number", 2)>>,
                                 <<<<"m", "a", "x", "_", "l", "e", "n", "g", "t", "h">>, JValue("Number", 4)>> >>),
          logic |-> [type |-> "Function", name |-> <<"n", "o", "_", "s", "u", "c", "h", "_", "f", "n">>]]>>,
       <<<<"t", "y", "p", "e", "d", "_", "b", "a", "d", "_", "s", "t", "e", "p">>,
         [conditions |-> Some(<< <<<<"i", "n", "p", "u", "t", "_", "t", "y", "p", "e">>, JValue("String", <<"a", "l", "p", "h", "a">>)>> >>),
          logic |-> [type |-> "Pipeline",
                     steps |-> << [step_type |-> <<"r", "e", "g", "e", "x">>, parameters |-> <<>>] >>]]>>,
       <<<<"s", "p", "e", "e", "d", "_", "m", "a", "p">>,
         [conditions |-> None,
          logic |-> [type |-> "ValueMap",
                     mappings |-> << <<<<"2", "5", "G", "B">>, <<"2", "5", "G">>>>, <<<<"f", "a", "s", "t">>, <<"2", "5", "G">>>> >>]]>>,
       <<<<"s", "p", "e", "e", "d", "_", "p", "i", "p", "e">>,
         [conditions |-> None,
          logic |-> [type |-> "Pipeline",
                     steps |-> << [step_type |-> <<"v", "a", "l", "u", "e", "_", "m", "a", "p">>,
                                   parameters |->
                                       << <<<<"m", "a", "p", "p", "i", "n", "g", "s">>,
                                            JValue("Object", << <<<<"2", "5", "G", "B">>, <<"2", "5", "G">>>>,
                                                                <<<<"f", "a", "s", "t">>, <<"2", "5", "G">>>> >>)>> >>] >>]]>>,
       <<<<"p", "i", "p", "e", "_", "b", "a", "d", "_", "s", "t", "e", "p">>,
         [conditions |-> None,
          logic |-> [type |-> "Pipeline",
                     steps |-> << [step_type |-> <<"f", "u", "n", "c", "t", "i", "o", "n">>,
                                   parameters |->
                                       << <<<<"n", "a", "m", "e">>, JValue("String", <<"t", "o", "_", "u", "p", "p", "e", "r", "c", "a", "s", "e">>)>> >>],
                                  [step_type |-> <<"r", "e", "g", "e", "x">>, parameters |-> <<>>] >>]]>>,
       <<<<"p", "i", "p", "e", "_", "b", "a", "d", "_", "f", "n">>,
         [conditions |-> None,
          logic |-> [type |-> "Pipeline",
                     steps |-> << [step_type |-> <<"f", "u", "n", "c", "t", "i", "o", "n">>,
                                   parameters |->
                                       << <<<<"n", "a", "m", "e">>, JValue("String", <<"t", "r", "i", "m", "_", "w", "h", "i", "t", "e", "s", "p", "a", "c", "e">>)>> >>],
                                  [step_type |-> <<"f", "u", "n", "c", "t", "i", "o", "n">>,
                                   parameters |->
                                       << <<<<"n", "a", "m", "e">>, JValue("String", <<"n", "o", "_", "s", "u", "c", "h", "_", "f", "n">>)>> >>] >>]]>>,
       <<<<"l", "a", "b", "e", "l">>,
         [conditions |-> None,
          logic |-> [type |-> "Template", template |-> <<"{", "i", "n", "p", "u", "t", "}", "@", "{", "l", "i", "n", "k", "_", "s", "p", "e", "e", "d", "}">>]]>> >>

\* The names of the rules
RuleNames == {TransformationRules[i][1] : i \in 1..Len(TransformationRules)}

\* An EnhancedConversionMap whose switch_ifname field names the given
\* transformations and whose link_speed field is rewritten by a value map
EnhancedMap(transformations) ==
    [field_definitions |->
         << <<<<"s", "w", "i", "t", "c", "h", "_", "i", "f", "n", "a", "m", "e">>, FieldDefinition(<<>>, Some(transformations))>>,
            <<<<"l", "i", "n", "k", "_", "s", "p", "e", "e", "d">>, FieldDefinition(<<>>, Some(<<<<"s", "p", "e", "e", "d", "_", "m", "a", "p">>>>))>>,
            <<<<"s", "e", "r", "v", "e", "r", "_", "l", "a", "b", "e", "l">>, FieldDefinition(<<>>, None)>> >>,
     transformation_rules |-> TransformationRules]

MaxRules == 2

\* The transformations of the field: one rule of the map, or up to MaxRules
\* names among which one names no rule and three name rules that can fail
TransformationLists ==
    {<<n>> : n \in RuleNames}
    \cup (SeqsUpTo({<<"u", "p", "p", "e", "r">>, <<"u", "n", "k", "n", "o", "w", "n", "_", "f", "n">>, <<"m", "i", "s", "s", "i", "n", "g", "_", "r", "u", "l", "e">>, <<"p", "i", "p", "e", "_", "b", "a", "d", "_", "s", "t", "e", "p">>, <<"i", "f", "a", "c", "e">>},
                   MaxRules) \ {<<>>})

\* Cell values: port numbers, names, LAG tokens and speeds
InputPool ==
    {<<"5">>, <<" ", "7", " ">>, <<"0", "0", "7">>, <<"+", "3">>, <<"4", "2", "9", "4", "9", "6", "7", "2", "9", "6">>, <<"-", "1">>, <<"a", "b", "c">>, <<>>,
     <<"Y", "e", "s">>, <<" ", "y", " ">>, <<"T", "R", "U", "E">>, <<"1">>, <<"l", "a", "c", "p">>, <<"N", "o">>, <<"N">>, <<"f", "a", "l", "s", "e">>, <<"0">>,
     <<"s", "t", "a", "t", "i", "c">>, <<"S", "T", "A", "T", "I", "C">>,
     <<" ", "n", "o", "n", "e">>, <<"m", "a", "y", "b", "e">>, <<"2", "5", "g", "b">>, <<"2", "5", "G", "B">>}

\* The context of a rule: none, or the sibling fields of the row
ContextPool ==
    {None, Some(<<>>), Some(<< <<<<"l", "i", "n", "k", "_", "s", "p", "e", "e", "d">>, <<>> >> >>),
     Some(<< <<<<"l", "i", "n", "k", "_", "s", "p", "e", "e", "d">>, <<"2", "5", "G">>>>, <<<<"s", "e", "r", "v", "e", "r", "_", "l", "a", "b", "e", "l">>, <<"s", "r", "v", "1">>>> >>)}
    \cup {Some(<< <<<<"l", "i", "n", "k", "_", "s", "p", "e", "e", "d">>, s>> >>) :
             s \in {<<"1", "G">>, <<"1", "0", "G">>, <<"5", "0", "G">>, <<"1", "0", "0", "G", "b", "p", "s">>, <<"5", "0", "0", "0", "0", "M">>, <<"f", "a", "s", "t">>}}

\* The field_data of the row: the field under transformation and its siblings
FieldData(input, context) == << <<<<"s", "w", "i", "t", "c", "h", "_", "i", "f", "n", "a", "m", "e">>, input>> >> \o unwrap_or(context, <<>>)

XformInit ==
    /\ RowIdle
    /\ ParseIdle
    /\ HdrIdle
    /\ AuxIdle
    /\ xf_transformations \in TransformationLists
    /\ xf_input \in InputPool
    /\ xf_context \in ContextPool
    /\ xf_result = None
    /\ xf_pc = "input"

\* apply_transformation of the one rule named, on the input and the context
ApplyRule ==
    /\ xf_pc = "input"
    /\ Len(xf_transformations) = 1
    /\ xf_transformations[1] \in RuleNames
    /\ xf_result' = apply_transformation(GetEntry(TransformationRules, xf_transformations[1]).v,
                                         xf_input, xf_context)
    /\ xf_pc' = "applied"
    /\ UNCHANGED <<xf_transformations, xf_input, xf_context, row_vars, parse_vars, hdr_vars, aux_vars>>

\* apply_field_transformations of the row
ApplyFields ==
    /\ xf_pc = "input"
    /\ xf_result' = apply_field_transformations(FieldData(xf_input, xf_context),
                                                EnhancedMap(xf_transformations))
    /\ xf_pc' = "transformed"
    /\ UNCHANGED <<xf_transformations, xf_input, xf_context, row_vars, parse_vars, hdr_vars, aux_vars>>

XformNext == ApplyRule \/ ApplyFields

XformSpec == XformInit /\ [][XformNext]_vars

-----------------------------------------------------------------------------
(* Claims about propagate_merged_cells_in_row *)

\* Index of the last cell left of i that is non-empty in r, 0 if there is none
LastNonEmptyLeft(r, i) ==
    LET S == {j \in 1..(i - 1) : ~IsEmpty(r[j])} IN
    IF S = {} THEN 0 ELSE CHOOSE j \in S : \A k \in S : k <= j

\* C1: a cell that is empty in the input and non-empty in the output lies at
\* most 3 columns right of the last non-empty input cell on its left and
\* holds that cell's value; an empty cell 4 or more columns past the last
\* non-empty cell (hence every later empty cell before the next value)
\* stays empty.
C1_DistanceLimit ==
    row_pc = "done" =>
        /\ Len(row_result) = Len(row)
        /\ \A i \in 1..Len(row) :
              IsEmpty(row[i]) =>
                  LET j == LastNonEmptyLeft(row, i) IN
                  /\ ~IsEmpty(row_result[i]) =>
                        /\ j > 0
                        /\ i - j <= 3
                        /\ row_result[i] = row[j]
                  /\ (j > 0 /\ i - j >= 4) => IsEmpty(row_result[i])

\* C1 witness: the row of test_propagate_merged_cells_distance_limit shape:
\* a value, filled cells at distances 1..3, an empty cell at distance 4
\* left empty, then another value.
C1_Witness ==
    /\ row_pc = "done"
    /\ Len(row) = 6
    /\ ~IsEmpty(row[1]) /\ ~IsEmpty(row[6])
    /\ \A i \in 2..5 : IsEmpty(row[i])
    /\ \A i \in 2..4 : row_result[i] = row[1]
    /\ IsEmpty(row_result[5])

\* C2: a row with more than 5 cells and fewer than 30% non-empty cells is
\* returned cell for cell; any other row is propagated normally, that is
\* every empty cell within 3 columns of the last value on its left is
\* filled with it.
C2_CategoryGuard ==
    row_pc = "done" =>
        IF Len(row) > 5 /\ 10 * non_empty_count(row) < 3 * Len(row)
        THEN row_result = row
        ELSE \A i \in 1..Len(row) :
                LET j == LastNonEmptyLeft(row, i) IN
                (IsEmpty(row[i]) /\ j > 0 /\ i - j <= 3) => row_result[i] = row[j]

\* C2 witness: a category row (one value, then empty cells that an ordinary
\* row would have had filled) came back unchanged.
C2_Witness ==
    /\ row_pc = "done"
    /\ Len(row) > 5
    /\ 10 * non_empty_count(row) < 3 * Len(row)
    /\ ~IsEmpty(row[1]) /\ IsEmpty(row[2])
    /\ row_result = row

-----------------------------------------------------------------------------
(* Claims about convert_to_network_config_row and parse_worksheet_data *)

\* The text has a character that is not whitespace
NonBlank(s) == \E i \in 1..Len(s) : ~IsWhitespace(s[i])

\* The identity field is mapped to a header, the row has that header, and the
\* value under it is not blank
Populated(row_data, field_map, field_name) ==
    \E h \in DOMAIN row_data :
        /\ field_name \in DOMAIN field_map
        /\ field_map[field_name] = h
        /\ NonBlank(row_data[h])

\* C3: convert_to_network_config_row returns no row if and only if both
\* switch_label and switch_ifname are unmapped, missing or blank; a row with
\* exactly one of them populated is accepted, and every row returned by
\* parse_worksheet_data has at least one non-blank identity field.
C3_RejectIffNoIdentity ==
    /\ parse_pc = "converted" =>
          (conv_result = None <=>
              /\ ~Populated(conv_row_data, conv_field_map, "switch_label")
              /\ ~Populated(conv_row_data, conv_field_map, "switch_ifname"))
    /\ parse_pc = "parsed" =>
          \A i \in 1..Len(parsed.v.rows) :
              LET r == parsed.v.rows[i] IN
              \/ IsSome(r.switch_label) /\ NonBlank(r.switch_label.v)
              \/ IsSome(r.switch_ifname) /\ NonBlank(r.switch_ifname.v)

\* C3 witness: a row whose switch_label is populated and whose switch_ifname
\* is mapped and present but blank was accepted.
C3_Witness ==
    /\ parse_pc = "converted"
    /\ Populated(conv_row_data, conv_field_map, "switch_label")
    /\ "switch_ifname" \in DOMAIN conv_field_map
    /\ conv_field_map["switch_ifname"] \in DOMAIN conv_row_data
    /\ conv_row_data[conv_field_map["switch_ifname"]] = <<" ">>
    /\ conv_result # None
    /\ conv_result.v.switch_ifname = None

\* The text of a worksheet cell as the reconstruction reads it
CellText(cell) == Trim(to_string(cell))

\* The most recent row before r whose cell in column c is not blank, 0 if
\* there is none
LastNonBlankAbove(data_rows, r, c) ==
    LET S == {q \in 1..(r - 1) : NonBlank(to_string(data_rows[q][c]))} IN
    IF S = {} THEN 0 ELSE CHOOSE q \in S : \A k \in S : k <= q

FieldColumn(result, field_name) ==
    LET S == {c \in 1..Len(result.headers) :
                 /\ field_name \in DOMAIN result.field_map
                 /\ result.headers[c] = result.field_map[field_name]} IN
    IF S = {} THEN 0 ELSE MinIndex(S)

\* C5: vertical carry-forward is applied only to merge-eligible columns; in
\* the per-row switch port column an empty cell of a data row is never
\* filled with a value taken from a previous row.
C5_NoCarryIntoPortColumn ==
    parse_pc = "parsed" =>
        LET c == FieldColumn(parsed.v, "switch_ifname") IN
        \A r \in 1..Len(parsed.v.data_rows) :
            (c > 0 /\ ~NonBlank(to_string(parsed.v.data_rows[r][c])))
                => parsed.v.merged_values[r][c] = <<>>

\* C6: the empty cells of a data row that looks like a section/category
\* header (more than 5 cells, fewer than 30% non-empty) are not filled by
\* the per-column carry from earlier rows.
C6_NoCarryIntoCategoryRow ==
    parse_pc = "parsed" =>
        \A r \in 1..Len(parsed.v.data_rows) :
            LET data_row == parsed.v.data_rows[r] IN
            (Len(data_row) > 5 /\ 10 * non_empty_count(data_row) < 3 * Len(data_row))
                => \A c \in 1..Len(data_row) :
                      IsEmpty(data_row[c]) => parsed.v.merged_values[r][c] = <<>>

\* C7: an empty cell whose column has no carried value yet and which has a
\* non-empty cell within 3 columns to its left in the same row is filled
\* with that cell's value, as test_comprehensive_merged_cells_all_scenarios
\* asserts for its first row (Port = SwitchA).
C7_HorizontalMerge ==
    parse_pc = "parsed" =>
        \A r \in 1..Len(parsed.v.data_rows) :
            LET data_row == parsed.v.data_rows[r] IN
            \A c \in 1..Len(data_row) :
                LET j == LastNonEmptyLeft(data_row, c) IN
                (/\ IsEmpty(data_row[c])
                 /\ LastNonBlankAbove(parsed.v.data_rows, r, c) = 0
                 /\ j > 0 /\ c - j <= 3
                 /\ NonBlank(to_string(data_row[j])))
                    => parsed.v.merged_values[r][c] = CellText(data_row[j])

\* C8: every data row the pipeline drops is reported: the accepted rows plus
\* the reported rejected rows are as many as the data rows processed.  The
\* rows written to log::warn are counted as reported here, although the
\* function returns the accepted rows only.
C8_DroppedRowsReported ==
    parse_pc = "parsed" =>
        Len(parsed.v.rows) + Len(parsed.v.warned) = Len(parsed.v.data_rows)

-----------------------------------------------------------------------------
(* Claims about the header resolvers *)

\* The tier a confidence stands for
TierOf(confidence) ==
    IF ConfEqual(confidence, ConfOne) THEN "exact"
    ELSE IF ConfEqual(confidence, ConfRegex) THEN "regex"
    ELSE IF ConfEqual(confidence, ConfPartial) THEN "partial"
    ELSE "fuzzy"

\* The fields a field map assigns to the header
FieldsOf(field_map, header) == {f \in DOMAIN field_map : field_map[f] = header}

\* Every mapping of the enhanced map is of a type the normalization applies
\* to (exact or partial) and is not case sensitive
NormalizedMappingsOnly(field_definitions) ==
    \A i \in 1..Len(field_definitions) :
        \A k \in 1..Len(field_definitions[i][2].xlsx_mappings) :
            LET xlsx_mapping == field_definitions[i][2].xlsx_mappings[k] IN
            /\ xlsx_mapping.mapping_type \in {"Exact", "Partial"}
            /\ ~xlsx_mapping.case_sensitive

\* C9: headers with equal normalizations resolve against the same conversion
\* map to the same canonical field and the same confidence tier, in
\* create_conversion_field_mapping (each header resolved alone; the tier is
\* exact when phase 1 assigned the field) and in find_best_field_match (for
\* maps of case-insensitive exact and partial mappings, the types that
\* compare normalized text).
C9_NormalizationInvariance ==
    /\ hdr_pc = "resolved_each" =>
          \A i, j \in 1..Len(hdr_headers) :
              normalize_header(hdr_headers[i]) = normalize_header(hdr_headers[j]) =>
                  /\ FieldsOf(hdr_result.v[i].field_map, hdr_headers[i])
                        = FieldsOf(hdr_result.v[j].field_map, hdr_headers[j])
                  /\ FieldsOf(hdr_result.v[i].after_phase1, hdr_headers[i])
                        = FieldsOf(hdr_result.v[j].after_phase1, hdr_headers[j])
    /\ (hdr_pc = "converted_headers" /\ NormalizedMappingsOnly(hdr_enhanced)) =>
          \A i, j \in 1..Len(hdr_headers) :
              normalize_header(hdr_headers[i]) = normalize_header(hdr_headers[j]) =>
                  LET h1 == hdr_headers[i]
                      h2 == hdr_headers[j]
                      converted == hdr_result.v.converted_headers
                      confidence == hdr_result.v.mapping_confidence IN
                  /\ h1 \in DOMAIN converted <=> h2 \in DOMAIN converted
                  /\ (h1 \in DOMAIN converted /\ h2 \in DOMAIN converted) =>
                        /\ converted[h1] = converted[h2]
                        /\ TierOf(confidence[h1]) = TierOf(confidence[h2])

\* Some mapping key of the field has the normalization of the header
ExactlyMatches(header, field_name, mappings) ==
    \E i \in 1..Len(mappings) :
        /\ mappings[i][2] = field_name
        /\ normalize_header(mappings[i][1]) = normalize_header(header)

\* The header's exact match goes to this field: among the mapping keys with
\* the normalization of the header, the longest one (the first in iteration
\* order among equally long ones) belongs to the field
ExactMatchSelects(header, field_name, mappings) ==
    \E i \in 1..Len(mappings) :
        /\ mappings[i][2] = field_name
        /\ normalize_header(mappings[i][1]) = normalize_header(header)
        /\ \A j \in 1..Len(mappings) :
              (j # i /\ normalize_header(mappings[j][1]) = normalize_header(header)) =>
                  \/ Len(mappings[j][1]) < Len(mappings[i][1])
                  \/ Len(mappings[j][1]) = Len(mappings[i][1]) /\ i < j

\* The exact pass comes first and is final: every field of the map after
\* phase 1 is held by a header that exactly matches one of its keys, and has
\* the same header in the returned map
ExactPassFinal ==
    \A f \in DOMAIN hdr_result.v.after_phase1 :
        /\ ExactlyMatches(hdr_result.v.after_phase1[f], f, hdr_mappings)
        /\ f \in DOMAIN hdr_result.v.field_map
        /\ hdr_result.v.field_map[f] = hdr_result.v.after_phase1[f]

\* C10 as stated: exact matches are resolved over every header first, a
\* field claimed in the exact pass is never reassigned by the partial pass,
\* and a field for which some header exactly matches one of its mapping keys
\* is never left assigned to a header that matches only partially.
C10_TwoPhaseResolution ==
    hdr_pc = "mapped" =>
        /\ ExactPassFinal
        /\ \A f \in DOMAIN hdr_result.v.field_map :
              (\E k \in 1..Len(hdr_headers) : ExactlyMatches(hdr_headers[k], f, hdr_mappings))
                  => ExactlyMatches(hdr_result.v.field_map[f], f, hdr_mappings)

\* C10 amended: exact matches are resolved over every header first, a field
\* claimed in the exact pass is never reassigned by the partial pass, and a
\* field that the exact match of some header selects (the longest mapping key
\* equal to the header after normalization, the first in iteration order
\* among equally long ones) is assigned to a header that exactly matches one
\* of its keys, whatever the order of the headers.
C10_TwoPhaseResolutionAmended ==
    hdr_pc = "mapped" =>
        /\ ExactPassFinal
        /\ \A f \in {hdr_mappings[i][2] : i \in 1..Len(hdr_mappings)} :
              (\E k \in 1..Len(hdr_headers) :
                    ExactMatchSelects(hdr_headers[k], f, hdr_mappings))
                  => /\ f \in DOMAIN hdr_result.v.field_map
                     /\ ExactlyMatches(hdr_result.v.field_map[f], f, hdr_mappings)

\* C10 witness: a header that matches a key of the field only partially
\* comes before the header that matches it exactly, and the field is
\* assigned to the exactly matching header.
C10_Witness ==
    /\ hdr_pc = "mapped"
    /\ Len(hdr_headers) = 2
    /\ \E f \in DOMAIN hdr_result.v.field_map :
          /\ ~ExactlyMatches(hdr_headers[1], f, hdr_mappings)
          /\ \E i \in 1..Len(hdr_mappings) :
                /\ hdr_mappings[i][2] = f
                /\ Contains(normalize_header(hdr_headers[1]),
                            normalize_header(hdr_mappings[i][1]))
          /\ ExactlyMatches(hdr_headers[2], f, hdr_mappings)
          /\ hdr_result.v.field_map[f] = hdr_headers[2]
          /\ FieldsOf(hdr_result.v.field_map, hdr_headers[1]) = {}

-----------------------------------------------------------------------------
(* Claims about find_best_field_match and convert_headers_with_enhanced_map *)

\* Every mapping of the map with its field: <<field_name, xlsx_mapping>>
AllMappings(field_definitions) ==
    UNION {{<<field_definitions[i][1], field_definitions[i][2].xlsx_mappings[j]>> :
               j \in 1..Len(field_definitions[i][2].xlsx_mappings)} :
           i \in 1..Len(field_definitions)}

\* The mappings whose confidence for the header is positive and not exceeded
BestMappings(header, field_definitions) ==
    {fm \in AllMappings(field_definitions) :
        /\ ConfGreater(mapping_confidence(fm[2], header), ConfZero)
        /\ \A other \in AllMappings(field_definitions) :
               ~ConfGreater(mapping_confidence(other[2], header),
                            mapping_confidence(fm[2], header))}

\* Among the best mappings, those of the highest priority
PreferredMappings(header, field_definitions) ==
    {fm \in BestMappings(header, field_definitions) :
        \A other \in BestMappings(header, field_definitions) :
            other[2].priority <= fm[2].priority}

Reverse(s) == AsSeq([i \in 1..Len(s) |-> s[Len(s) + 1 - i]])

\* C11: find_best_field_match returns for a header a field one of whose
\* mappings has the highest confidence over all mappings of all fields and,
\* among the mappings that tie on that confidence, the highest priority; and
\* the field is the same in the other iteration order of the same map.
C11_BestMatchByConfidenceThenPriority ==
    hdr_pc = "converted_headers" =>
        \A i \in 1..Len(hdr_headers) :
            LET header == hdr_headers[i]
                found == find_best_field_match(header, hdr_enhanced) IN
            /\ IsSome(found) <=> BestMappings(header, hdr_enhanced) # {}
            /\ IsSome(found) =>
                  /\ found.v[1] = hdr_result.v.converted_headers[header]
                  /\ \E fm \in PreferredMappings(header, hdr_enhanced) : fm[1] = found.v[1]
                  /\ find_best_field_match(header, Reverse(hdr_enhanced)) = found

-----------------------------------------------------------------------------
(* Claims about the transformation engine *)

\* The value of a field after the rules named: each name that has a rule
\* whose application succeeds replaces the value by the rule's output, every
\* other name leaves it as it is
ThreadedValue(value, names, context) ==
    LET after[k \in 0..Len(names)] ==
            IF k = 0 THEN value
            ELSE IF names[k] \in RuleNames
                    /\ apply_transformation(GetEntry(TransformationRules, names[k]).v,
                                            after[k - 1], Some(context)).ok
                 THEN apply_transformation(GetEntry(TransformationRules, names[k]).v,
                                           after[k - 1], Some(context)).v
                 ELSE after[k - 1] IN
    after[Len(names)]

\* The transformations the map lists for a field (none for other fields)
ListedTransformations(field_name) ==
    IF field_name = <<"s", "w", "i", "t", "c", "h", "_", "i", "f", "n", "a", "m", "e">> THEN xf_transformations
    ELSE IF field_name = <<"l", "i", "n", "k", "_", "s", "p", "e", "e", "d">> THEN <<<<"s", "p", "e", "e", "d", "_", "m", "a", "p">>>>
    ELSE <<>>

\* C12: apply_field_transformations returns Ok with exactly the keys of the
\* input map; a name without a rule and a rule that returns an error leave
\* the value as it was before that rule, and the rules after it and the
\* other fields are still processed.
C12_FailuresAreSkipped ==
    xf_pc = "transformed" =>
        LET field_data == FieldData(xf_input, xf_context) IN
        /\ xf_result.ok
        /\ DOMAIN xf_result.v = {field_data[i][1] : i \in 1..Len(field_data)}
        /\ \A i \in 1..Len(field_data) :
              xf_result.v[field_data[i][1]] =
                  ThreadedValue(field_data[i][2], ListedTransformations(field_data[i][1]),
                                field_data)

\* C12 witness: the first of two names has no rule or its rule returns an
\* error, the second one still rewrites the value, and a sibling field is
\* rewritten too.
C12_Witness ==
    /\ xf_pc = "transformed"
    /\ Len(xf_transformations) = 2
    /\ \/ xf_transformations[1] \notin RuleNames
       \/ ~apply_transformation(GetEntry(TransformationRules, xf_transformations[1]).v,
                                xf_input, Some(FieldData(xf_input, xf_context))).ok
    /\ xf_transformations[2] = <<"u", "p", "p", "e", "r">>
    /\ xf_result.v[<<"s", "w", "i", "t", "c", "h", "_", "i", "f", "n", "a", "m", "e">>] = to_uppercase(xf_input)
    /\ xf_result.v[<<"s", "w", "i", "t", "c", "h", "_", "i", "f", "n", "a", "m", "e">>] # xf_input
    /\ xf_context = Some(<< <<<<"l", "i", "n", "k", "_", "s", "p", "e", "e", "d">>, <<"f", "a", "s", "t">>>> >>)
    /\ xf_result.v[<<"l", "i", "n", "k", "_", "s", "p", "e", "e", "d">>] = <<"2", "5", "G">>

\* The value a pipeline leaves when every failing step leaves the value as
\* the steps before it produced it
ValueOfSucceedingSteps(value, steps, context) ==
    LET after[k \in 0..Len(steps)] ==
            IF k = 0 THEN value
            ELSE IF apply_transformation_step(steps[k].step_type, after[k - 1],
                                              steps[k].parameters, context).ok
                 THEN apply_transformation_step(steps[k].step_type, after[k - 1],
                                                steps[k].parameters, context).v
                 ELSE after[k - 1] IN
    after[Len(steps)]

\* Some step of the pipeline fails on the value the steps before it produced
SomeStepFails(value, steps, context) ==
    ~PipelineLoop(value, steps, context).ok

\* C13: a Pipeline rule with a step of unknown type, or a function step that
\* names an unregistered function, reports an error, and the value of the
\* field after the failure is the value produced by the steps before the
\* failing one.
C13_FailingStepKeepsEarlierSteps ==
    LET rule == GetEntry(TransformationRules, xf_transformations[1]).v
        field_data == FieldData(xf_input, xf_context) IN
    /\ (/\ xf_pc = "applied"
        /\ rule.logic.type = "Pipeline" /\ rule.conditions = None
        /\ SomeStepFails(xf_input, rule.logic.steps, xf_context))
       => ~xf_result.ok
    /\ (/\ xf_pc = "transformed"
        /\ Len(xf_transformations) = 1 /\ xf_transformations[1] \in RuleNames
        /\ rule.logic.type = "Pipeline" /\ rule.conditions = None
        /\ SomeStepFails(xf_input, rule.logic.steps, Some(field_data)))
       => xf_result.v[<<"s", "w", "i", "t", "c", "h", "_", "i", "f", "n", "a", "m", "e">>] =
              ValueOfSucceedingSteps(xf_input, rule.logic.steps, Some(field_data))

\* A decimal numeral: digits only, after an optional plus sign and with
\* blanks around it removed
IsNonNegativeInteger(input) ==
    LET t == Trim(input)
        digits == IF t # <<>> /\ Head(t) = "+" THEN Tail(t) ELSE t IN
    digits # <<>> /\ \A i \in 1..Len(digits) : digits[i] \in Digits

\* An entry of the conditions fails for the input and the context:
\* input_type = numeric_port on an input that is not a non-negative integer,
\* has_speed_data = true without a non-empty link_speed, min_length above or
\* max_length below the length of the input
SomeConditionFails(conditions, input, context) ==
    \E i \in 1..Len(conditions) :
        LET key == conditions[i][1]
            value == conditions[i][2].v IN
        \/ key = <<"i", "n", "p", "u", "t", "_", "t", "y", "p", "e">> /\ value = <<"n", "u", "m", "e", "r", "i", "c", "_", "p", "o", "r", "t">> /\ ~IsNonNegativeInteger(input)
        \/ /\ key = <<"h", "a", "s", "_", "s", "p", "e", "e", "d", "_", "d", "a", "t", "a">> /\ value = TRUE
           /\ \/ ~IsSome(context)
              \/ \A j \in 1..Len(context.v) :
                    context.v[j][1] = <<"l", "i", "n", "k", "_", "s", "p", "e", "e", "d">> => context.v[j][2] = <<>>
        \/ key = <<"m", "i", "n", "_", "l", "e", "n", "g", "t", "h">> /\ Len(input) < value
        \/ key = <<"m", "a", "x", "_", "l", "e", "n", "g", "t", "h">> /\ Len(input) > value

C16_ConvertedOrWarned ==
    hdr_pc = "converted_headers" =>
        LET r == hdr_result.v
            Warned(h) == \E j \in 1..Len(r.validation_errors) : r.validation_errors[j].field = h IN
        /\ \A i \in 1..Len(hdr_headers) :
              /\ (hdr_headers[i] \in DOMAIN r.converted_headers) # Warned(hdr_headers[i])
              /\ hdr_headers[i] \in DOMAIN r.converted_headers
                    => /\ hdr_headers[i] \in DOMAIN r.mapping_confidence
                       /\ ConfGreater(r.mapping_confidence[hdr_headers[i]], ConfZero)
        /\ \A j \in 1..Len(r.validation_errors) :
              /\ r.validation_errors[j].severity = "Warning"
              /\ \E i \in 1..Len(hdr_headers) : hdr_headers[i] = r.validation_errors[j].field

\* C16 witness: of two headers one is converted and the other one, which no
\* mapping matches, is reported as a warning.
C16_Witness ==
    /\ hdr_pc = "converted_headers"
    /\ Len(hdr_headers) = 2
    /\ hdr_headers[1] \in DOMAIN hdr_result.v.converted_headers
    /\ hdr_headers[2] \notin DOMAIN hdr_result.v.converted_headers
    /\ hdr_result.v.validation_errors = <<[field |-> hdr_headers[2], severity |-> "Warning"]>>

\* The header matches the mapping key, exactly or partially, after
\* normalization
KeyMatches(header, key) ==
    \/ Contains(normalize_header(header), normalize_header(key))
    \/ Contains(normalize_header(key), normalize_header(header))

\* No entry of the conversion map matches any of the headers
NoEntryMatches(headers, mappings) ==
    \A i \in 1..Len(headers) : \A k \in 1..Len(mappings) : ~KeyMatches(headers[i], mappings[k][1])

\* The half of C17 about create_conversion_field_mapping
FallbackOfSimpleMap ==
    hdr_pc = "mapped" =>
        IF NoEntryMatches(hdr_headers, hdr_mappings)
        THEN hdr_result.v.field_map = create_field_mapping(hdr_headers)
        ELSE /\ hdr_result.v.field_map # EmptyMap
             /\ \A f \in DOMAIN hdr_result.v.field_map :
                   \E k \in 1..Len(hdr_mappings) :
                       /\ hdr_mappings[k][2] = f
                       /\ KeyMatches(hdr_result.v.field_map[f], hdr_mappings[k][1])

\* The half of C17 about convert_headers_with_enhanced_map
FallbackOfEnhancedMap ==
    (hdr_pc = "converted_headers" /\ hdr_result.v.converted_headers = EmptyMap)
        => create_field_mapping(hdr_headers) = EmptyMap

\* C17: when no entry of the conversion map matches any header, the result
\* of header resolution is the mapping that the built-in table of field-name
\* synonyms gives; when an entry matches a header, every mapping in the
\* result comes from the conversion map.
C17_FallbackIffNothingMatches == FallbackOfSimpleMap /\ FallbackOfEnhancedMap

\* The value-map lookup of the claim: the value of the key equal to the
\* input, else the value of a key equal to it up to letter case, else the
\* input
LookupUpToCase(mappings, input) ==
    IF \E i \in 1..Len(mappings) : mappings[i][1] = input
    THEN (CHOOSE e \in {mappings[i] : i \in 1..Len(mappings)} : e[1] = input)[2]
    ELSE IF \E i \in 1..Len(mappings) : to_lowercase(mappings[i][1]) = to_lowercase(input)
    THEN (CHOOSE e \in {mappings[i] : i \in 1..Len(mappings)} :
              to_lowercase(e[1]) = to_lowercase(input))[2]
    ELSE input

\* C18: a ValueMap rule and a Pipeline whose only step is a value_map step
\* with the same mappings both return the value of the key equal to the
\* input, else the value of a key equal to it up to letter case, else the
\* input; so the two return the same for every input.
C18_ValueMapLookup ==
    (xf_pc = "applied" /\ xf_transformations[1] \in {<<"s", "p", "e", "e", "d", "_", "m", "a", "p">>, <<"s", "p", "e", "e", "d", "_", "p", "i", "p", "e">>})
        => xf_result = Ok(LookupUpToCase(GetEntry(TransformationRules, <<"s", "p", "e", "e", "d", "_", "m", "a", "p">>).v.logic.mappings,
                                         xf_input))

\* The input as lag_mode_conversion compares it: trimmed and case-folded
LagToken(input) == to_lowercase(Trim(input))

\* What the claim says lag_mode_conversion returns, the canonical values
\* being returned as canonical(input)
LagModeOf(input, canonical(_)) ==
    IF input = <<>> THEN input
    ELSE IF LagToken(input) \in {<<"y", "e", "s">>, <<"y">>, <<"t", "r", "u", "e">>, <<"1">>, <<"l", "a", "c", "p">>} THEN <<"l", "a", "c", "p", "_", "a", "c", "t", "i", "v", "e">>
    ELSE IF LagToken(input) \in {<<"n", "o">>, <<"n">>, <<"f", "a", "l", "s", "e">>, <<"0">>} THEN <<"n", "o", "n", "e">>
    ELSE IF LagToken(input) \in {<<"l", "a", "c", "p", "_", "a", "c", "t", "i", "v", "e">>, <<"s", "t", "a", "t", "i", "c">>, <<"n", "o", "n", "e">>} THEN canonical(input)
    ELSE input

Unchanged(input) == input

SpeedInMbit(speed) ==
    LET s == SelectSeq(to_uppercase(speed), LAMBDA c : ~IsWhitespace(c))
        digits == TakeWhile(s, Digits)
        unit == SubSeq(s, Len(digits) + 1, Len(s)) IN
    IF digits = <<>> THEN None
    ELSE IF unit \in {<<>>, <<"G">>, <<"G", "B">>, <<"G", "B", "P", "S">>} THEN Some(Canonical(digits \o <<"0", "0", "0">>))
    ELSE IF unit \in {<<"M">>, <<"M", "B">>, <<"M", "B", "P", "S">>} THEN Some(Canonical(digits))
    ELSE None

\* The prefix the claim gives a speed: ge for 1G, xe for 10G, et above 10G,
\* ge for any other, absent, empty or unrecognized speed
PrefixOfSpeed(speed) ==
    LET mbit == SpeedInMbit(speed) IN
    IF ~IsSome(mbit) THEN <<"g", "e">>
    ELSE IF mbit.v = <<"1", "0", "0", "0", "0">> THEN <<"x", "e">>
    ELSE IF DecimalLess(<<"1", "0", "0", "0", "0">>, mbit.v) THEN <<"e", "t">>
    ELSE <<"g", "e">>

\* C20: generate_interface_name returns an input that is not a non-negative
\* integer unchanged, and for a port number p it returns <prefix>-0/0/<p>
\* with the prefix of the context's link_speed: ge for 1G, xe for 10G, et
\* for any speed above 10G, ge when the speed is absent, empty or
\* unrecognized.
C20_InterfaceName ==
    (xf_pc = "applied" /\ xf_transformations = <<<<"i", "f", "a", "c", "e", "_", "p", "l", "a", "i", "n">>>>) =>
        LET found == IF IsSome(xf_context) THEN GetEntry(xf_context.v, <<"l", "i", "n", "k", "_", "s", "p", "e", "e", "d">>)
                     ELSE None
            speed == IF IsSome(found) THEN found.v ELSE <<>> IN
        /\ ~IsNonNegativeInteger(xf_input) => xf_result = Ok(xf_input)
        /\ is_numeric_port(xf_input)
              => xf_result = Ok(PrefixOfSpeed(speed) \o <<"-", "0", "/", "0", "/">> \o parse_u32(Trim(xf_input)).v)

-----------------------------------------------------------------------------
(* Claims of the third group *)

\* C26: propagate_merged_cells_in_row preserves the row: the output has the
\* same number of cells, every non-empty input cell keeps its value, and
\* every empty cell with no value on its left (a leading empty cell) stays
\* empty.
C26_RowPreserved ==
    row_pc = "done" =>
        /\ Len(row_result) = Len(row)
        /\ \A i \in 1..Len(row) :
              /\ ~IsEmpty(row[i]) => row_result[i] = row[i]
              /\ (\A j \in 1..i : IsEmpty(row[j])) => IsEmpty(row_result[i])

\* C26 witness: the row of test_propagate_merged_cells_with_leading_empty: leading
\* empty cells, a value, an empty cell that gets filled, another value.
C26_Witness ==
    /\ row_pc = "done"
    /\ Len(row) = 5
    /\ IsEmpty(row[1]) /\ IsEmpty(row[2])
    /\ ~IsEmpty(row[3]) /\ IsEmpty(row[4]) /\ ~IsEmpty(row[5])
    /\ row[3] # row[5]
    /\ IsEmpty(row_result[1]) /\ IsEmpty(row_result[2])
    /\ row_result[4] = row[3]
    /\ row_result[5] = row[5]

-----------------------------------------------------------------------------
(* BuiltinSpec: the built-in functions called on one input, once and twice,  *)
(* alone and as the rules of apply_field_transformations                     *)

\* One unconditional Function rule for each registered function, named
\* after the function
BuiltinRules ==
    LET names == <<<<"t", "r", "i", "m", "_", "w", "h", "i", "t", "e", "s", "p", "a", "c", "e">>, <<"t", "o", "_", "u", "p", "p", "e", "r", "c", "a", "s", "e">>, <<"t", "o", "_", "l", "o", "w", "e", "r", "c", "a", "s", "e">>, <<"n", "o", "r", "m", "a", "l", "i", "z", "e", "_", "s", "p", "e", "e", "d">>,
                   <<"g", "e", "n", "e", "r", "a", "t", "e", "_", "i", "n", "t", "e", "r", "f", "a", "c", "e", "_", "n", "a", "m", "e">>, <<"l", "a", "g", "_", "m", "o", "d", "e", "_", "c", "o", "n", "v", "e", "r", "s", "i", "o", "n">>>> IN
    AsSeq([i \in 1..Len(names) |->
              <<names[i], [conditions |-> None, logic |-> [type |-> "Function", name |-> names[i]]]>>])

\* An EnhancedConversionMap whose switch_ifname field names the given rules,
\* whose link_speed field is normalized and whose server_label is trimmed
BuiltinMap(transformations) ==
    [field_definitions |->
         << <<<<"s", "w", "i", "t", "c", "h", "_", "i", "f", "n", "a", "m", "e">>, FieldDefinition(<<>>, Some(transformations))>>,
            <<<<"l", "i", "n", "k", "_", "s", "p", "e", "e", "d">>, FieldDefinition(<<>>, Some(<<<<"n", "o", "r", "m", "a", "l", "i", "z", "e", "_", "s", "p", "e", "e", "d">>>>))>>,
            <<<<"s", "e", "r", "v", "e", "r", "_", "l", "a", "b", "e", "l">>, FieldDefinition(<<>>, Some(<<<<"t", "r", "i", "m", "_", "w", "h", "i", "t", "e", "s", "p", "a", "c", "e">>>>))>> >>,
     transformation_rules |-> BuiltinRules]

MaxBuiltinRules == 2

\* The speeds of test_link_speed_transformation_from_enhanced_conversion and
\* of the engine's unit tests, in other letter cases and spacings, with
\* leading zeros, with a fraction, and tokens that are no speed
SpeedPool ==
    {<<"2", "5", "G", "B">>, <<"1", "0", "0", "G", "B">>, <<"1", "0", "G">>, <<"1", "0", "0", "0", "M">>, <<"2", "5", " ", "G", "b", "p", "s">>, <<"1", "0", " ", "G", "B">>, <<"4", "0", "G">>, <<"1", "0", "0", " ", "M", "B">>,
     <<"1", "0", "0", "m", "b", "p", "s">>, <<"1", "0", "g">>, <<"1", "0", "0", "0", "m">>, <<"1", "0">>, <<" ", "4", "0", " ">>, <<"2", "5", " ", " ", "g", "B", "p", "S">>, <<"0", "1", "0", " ", "G", "B">>, <<"2", ".", "5", "G", "B">>,
     <<"2", "5", " ", "G">>, <<"x", "G", "B">>, <<"f", "a", "s", "t">>}

\* The sibling fields of the row
BuiltinContexts ==
    {None, Some(<<>>),
     Some(<< <<<<"l", "i", "n", "k", "_", "s", "p", "e", "e", "d">>, <<"1", "0", " ", "G", "b", "p", "s">>>> >>),
     Some(<< <<<<"l", "i", "n", "k", "_", "s", "p", "e", "e", "d">>, <<"2", "5", "G", "B">>>>, <<<<"s", "e", "r", "v", "e", "r", "_", "l", "a", "b", "e", "l">>, <<" ", "s", "r", "v", "1", " ">>>> >>)}

BuiltinInit ==
    /\ RowIdle
    /\ ParseIdle
    /\ HdrIdle
    /\ AuxIdle
    /\ xf_transformations \in SeqsUpTo(BuiltinFunctions, MaxBuiltinRules) \ {<<>>}
    /\ xf_input \in InputPool \cup SpeedPool
    /\ xf_context \in BuiltinContexts
    /\ xf_result = None
    /\ xf_pc = "input"

\* The speed of a cell normalized by the engine's normalize_speed and by
\* the parser
NormalizeSpeed ==
    /\ xf_pc = "input"
    /\ xf_transformations = <<<<"n", "o", "r", "m", "a", "l", "i", "z", "e", "_", "s", "p", "e", "e", "d">>>>
    /\ xf_context = None
    /\ xf_result' = [engine |-> normalize_speed_value(xf_input),
                     parser |-> normalize_link_speed(xf_input)]
    /\ xf_pc' = "normalized"
    /\ UNCHANGED <<xf_transformations, xf_input, xf_context, row_vars, parse_vars, hdr_vars, aux_vars>>

\* The one function named, called on the input and then on its own result
CallTwice ==
    /\ xf_pc = "input"
    /\ Len(xf_transformations) = 1
    /\ LET once == CallFunction(xf_transformations[1], xf_input, xf_context) IN
       xf_result' = [once |-> once,
                     twice |-> IF once.ok
                               THEN CallFunction(xf_transformations[1], once.v, xf_context)
                               ELSE once]
    /\ xf_pc' = "called"
    /\ UNCHANGED <<xf_transformations, xf_input, xf_context, row_vars, parse_vars, hdr_vars, aux_vars>>

\* apply_field_transformations of the row and then of the row it returned
ReapplyFields ==
    /\ xf_pc = "input"
    /\ LET field_data == FieldData(xf_input, xf_context)
           enhanced_map == BuiltinMap(xf_transformations)
           once == apply_field_transformations(field_data, enhanced_map).v
           returned == AsSeq([i \in 1..Len(field_data) |->
                                 <<field_data[i][1], once[field_data[i][1]]>>]) IN
       xf_result' = [once |-> once,
                     twice |-> apply_field_transformations(returned, enhanced_map).v]
    /\ xf_pc' = "reapplied"
    /\ UNCHANGED <<xf_transformations, xf_input, xf_context, row_vars, parse_vars, hdr_vars, aux_vars>>

BuiltinNext == NormalizeSpeed \/ CallTwice \/ ReapplyFields

BuiltinSpec == BuiltinInit /\ [][BuiltinNext]_vars

\* The speed the input denotes: its leading integer (as written, or without
\* leading zeros when plain is FALSE) with G for a bare integer and for the
\* units GB and Gbps, M for MB and Mbps, and the unit of a token nG or nM;
\* None for an input of another form
SpeedOf(input, plain) ==
    LET number == TakeWhile(input, Digits)
        n == IF plain THEN number ELSE Canonical(number)
        rest == SubSeq(input, Len(number) + 1, Len(input))
        unit == to_uppercase(SelectNonWhitespace(rest)) IN
    IF input = <<>> THEN Some(<<>>)
    ELSE IF number = <<>> THEN None
    ELSE IF rest = <<>> \/ unit \in {<<"G", "B">>, <<"G", "B", "P", "S">>} THEN Some(n \o <<"G">>)
    ELSE IF unit \in {<<"M", "B">>, <<"M", "B", "P", "S">>} THEN Some(n \o <<"M">>)
    ELSE IF to_uppercase(rest) \in {<<"G">>, <<"M">>} THEN Some(n \o to_uppercase(rest))
    ELSE None

\* C21: on the empty string and on an integer n that is bare, followed by
\* optional whitespace and GB, Gbps, MB or Mbps in any letter case, or
\* followed by G or M in any letter case, normalize_speed_value and
\* normalize_link_speed both return the empty string, respectively n with G
\* or M (n as written or without leading zeros), and return the same string.
C21_SpeedNormalization ==
    (xf_pc = "normalized" /\ IsSome(SpeedOf(xf_input, TRUE))) =>
        /\ xf_result.engine \in {SpeedOf(xf_input, TRUE).v, SpeedOf(xf_input, FALSE).v}
        /\ xf_result.parser \in {SpeedOf(xf_input, TRUE).v, SpeedOf(xf_input, FALSE).v}
        /\ xf_result.engine = xf_result.parser

\* C22: each built-in function called on its own result, with the same
\* context, returns that result again; and apply_field_transformations of
\* the row it returned, under a map whose rules are each one built-in
\* function, returns the same row.
C22_Idempotence ==
    /\ (xf_pc = "called" /\ xf_result.once.ok) => xf_result.twice = xf_result.once
    /\ xf_pc = "reapplied" => xf_result.twice = xf_result.once

\* C22 as it holds: each built-in function called on its own result, with
\* the same context, returns that result again; and apply_field_transformations
\* of the row it returned returns the same row when each field names one
\* rule and that rule is one built-in function.
C22_IdempotenceAmended ==
    /\ (xf_pc = "called" /\ xf_result.once.ok) => xf_result.twice = xf_result.once
    /\ (xf_pc = "reapplied" /\ Len(xf_transformations) = 1) =>
           xf_result.twice = xf_result.once

\* C22 witness: port 7 at 25GB with a label to trim became et-0/0/7, 25G
\* and the trimmed label, and the second application returned the same row.
C22_Witness ==
    /\ xf_pc = "reapplied"
    /\ xf_transformations = <<<<"g", "e", "n", "e", "r", "a", "t", "e", "_", "i", "n", "t", "e", "r", "f", "a", "c", "e", "_", "n", "a", "m", "e">>>>
    /\ xf_input = <<" ", "7", " ">>
    /\ xf_context = Some(<< <<<<"l", "i", "n", "k", "_", "s", "p", "e", "e", "d">>, <<"2", "5", "G", "B">>>>, <<<<"s", "e", "r", "v", "e", "r", "_", "l", "a", "b", "e", "l">>, <<" ", "s", "r", "v", "1", " ">>>> >>)
    /\ xf_result.once[<<"s", "w", "i", "t", "c", "h", "_", "i", "f", "n", "a", "m", "e">>] = <<"e", "t", "-", "0", "/", "0", "/", "7">>
    /\ xf_result.once[<<"l", "i", "n", "k", "_", "s", "p", "e", "e", "d">>] = <<"2", "5", "G">>
    /\ xf_result.once[<<"s", "e", "r", "v", "e", "r", "_", "l", "a", "b", "e", "l">>] = <<"s", "r", "v", "1">>
    /\ xf_result.twice = xf_result.once

-----------------------------------------------------------------------------
(* validate_field_values *)

\* str::len: the number of bytes of the UTF-8 encoding (the characters
\* outside ASCII that occur here take two bytes)
str_len(s) == Cardinality({i \in 1..Len(s) : s[i] \in {"é", "ö"}}) + Len(s)

\* regex::Regex::new(pattern) followed by is_match(value) for the patterns
\* of the field definitions used here: Err for a pattern that does not
\* compile, else Ok(whether some part of the value matches)
regex_is_match(pattern, value) ==
    IF pattern = <<"^", "[", "0", "-", "9", "]", "+", "$">>
    THEN Ok(value # <<>> /\ \A i \in 1..Len(value) : IsAsciiDigit(value[i]))
    ELSE IF pattern = <<"[", "a", "-", "z", "]">>
    THEN Ok(\E i \in 1..Len(value) : value[i] \in {LowerChar(c) : c \in UpperLetters})
    ELSE Err("regex parse error")

\* One iteration of the loop over field_data: the ValidationErrors pushed to
\* errors and to warnings for one field, in the order of the checks
FieldErrors(field_name, value, field_def) ==
    LET validation_rules == field_def.validation_rules
        Error(message) == [field |-> field_name, message |-> message, severity |-> "Error"]
        pattern_match == IF IsSome(validation_rules.pattern)
                         THEN regex_is_match(validation_rules.pattern.v, value)
                         ELSE Err("") IN
    (IF field_def.is_required /\ Trim(value) = <<>>
     THEN <<Error(<<"Required field cannot be empty">>)>> ELSE <<>>)
    \o (IF IsSome(validation_rules.min_length) /\ str_len(value) < validation_rules.min_length.v
        THEN <<Error(<<"Value too short, minimum length is ", validation_rules.min_length.v>>)>>
        ELSE <<>>)
    \o (IF IsSome(validation_rules.max_length) /\ str_len(value) > validation_rules.max_length.v
        THEN <<Error(<<"Value too long, maximum length is ", validation_rules.max_length.v>>)>>
        ELSE <<>>)
    \o (IF pattern_match.ok /\ ~pattern_match.v
        THEN <<Error(<<"Value does not match required pattern: ", validation_rules.pattern.v>>)>>
        ELSE <<>>)

FieldWarnings(field_name, value, field_def) ==
    LET allowed_values == field_def.validation_rules.allowed_values IN
    IF IsSome(allowed_values) /\ ~\E i \in 1..Len(allowed_values.v) : allowed_values.v[i] = value
    THEN <<[field |-> field_name,
            message |-> <<"Value not in allowed values", value, allowed_values.v>>,
            severity |-> "Warning"]>>
    ELSE <<>>

\* The loop over field_data; acc holds errors, warnings and field_summary
RECURSIVE ValidationLoop(_, _, _)
ValidationLoop(acc, field_data, field_definitions) ==
    IF field_data = <<>> THEN acc
    ELSE LET field_name == Head(field_data)[1]
             value == Head(field_data)[2]
             field_def == GetFieldDefinition(field_definitions, field_name)
             field_errors == IF IsSome(field_def)
                             THEN FieldErrors(field_name, value, field_def.v) ELSE <<>>
             field_warnings == IF IsSome(field_def)
                               THEN FieldWarnings(field_name, value, field_def.v) ELSE <<>> IN
         ValidationLoop(
             [errors |-> acc.errors \o field_errors,
              warnings |-> acc.warnings \o field_warnings,
              field_summary |->
                  Insert(acc.field_summary, field_name,
                         [is_valid |-> Len(field_errors) = 0,
                          error_count |-> Len(field_errors),
                          warning_count |-> Len(field_warnings)])],
             Tail(field_data), field_definitions)

\* field_data is the map as a sequence of <<field, value>> in iteration order
validate_field_values(field_data, field_definitions) ==
    LET acc == ValidationLoop([errors |-> <<>>, warnings |-> <<>>, field_summary |-> EmptyMap],
                              field_data, field_definitions) IN
    Ok([is_valid |-> acc.errors = <<>>,
        errors |-> acc.errors,
        warnings |-> acc.warnings,
        field_summary |-> acc.field_summary])

-----------------------------------------------------------------------------
(* ValidSpec: validate_field_values on rows of up to MaxFields fields *)

MaxFields == 2

\* FieldDefinitions with is_required and validation_rules: a required port
\* number of one or two digits, an optional city of at most four characters
\* from a list, and a required tag whose pattern does not compile
ValidatedDefinitions ==
    << <<<<"p", "o", "r", "t">>, [is_required |-> TRUE,
                    validation_rules |-> [min_length |-> Some(1), max_length |-> Some(2),
                                          pattern |-> Some(<<"^", "[", "0", "-", "9", "]", "+", "$">>),
                                          allowed_values |-> None]]>>,
       <<<<"c", "i", "t", "y">>, [is_required |-> FALSE,
                    validation_rules |-> [min_length |-> None, max_length |-> Some(4),
                                          pattern |-> Some(<<"[", "a", "-", "z", "]">>),
                                          allowed_values |-> Some(<<<<"b", "o", "n", "n">>, <<"K", "ö", "l", "n">>, <<>>, <<"7">>>>)]]>>,
       <<<<"t", "a", "g">>, [is_required |-> TRUE,
                   validation_rules |-> [min_length |-> None, max_length |-> None,
                                         pattern |-> Some(<<"(">>),
                                         allowed_values |-> None]]>> >>

FieldNames == {<<"p", "o", "r", "t">>, <<"c", "i", "t", "y">>, <<"t", "a", "g">>, <<"n", "o", "t", "e">>}

FieldValues == {<<>>, <<" ">>, <<"7">>, <<"1", "2", "3">>, <<"b", "o", "n", "n">>, <<"K", "ö", "l", "n">>, <<"P", "a", "r", "i", "s">>}

\* The rows: up to MaxFields distinct fields, in every iteration order
FieldRows ==
    {r \in SeqsUpTo(FieldNames \X FieldValues, MaxFields) :
        \A i, j \in 1..Len(r) : i # j => r[i][1] # r[j][1]}

ValidInit ==
    /\ FileIdle
    /\ JsonIdle
    /\ SessionIdle
    /\ val_field_data \in FieldRows
    /\ val_enhanced_map = ValidatedDefinitions
    /\ val_result = None
    /\ val_pc = "input"

ValidateFields ==
    /\ val_pc = "input"
    /\ val_result' = validate_field_values(val_field_data, val_enhanced_map)
    /\ val_pc' = "validated"
    /\ UNCHANGED <<val_field_data, val_enhanced_map, file_vars, json_vars, sess_vars>>

ValidNext == ValidateFields

ValidSpec == ValidInit /\ [][ValidNext]_vars

\* The sum of the first n elements of a sequence of numbers
RECURSIVE SumOf(_, _)
SumOf(counts, n) == IF n = 0 THEN 0 ELSE counts[n] + SumOf(counts, n - 1)

\* The number of violations of a value against a FieldDefinition: required
\* and blank, fewer characters than min_length, more characters than
\* max_length, no match of a pattern that is a regular expression
ViolationCount(value, field_def) ==
    LET rules == field_def.validation_rules
        One(violated) == IF violated THEN 1 ELSE 0 IN
    One(field_def.is_required /\ Trim(value) = <<>>)
    + One(IsSome(rules.min_length) /\ Len(value) < rules.min_length.v)
    + One(IsSome(rules.max_length) /\ Len(value) > rules.max_length.v)
    + One(IsSome(rules.pattern) /\ regex_is_match(rules.pattern.v, value).ok
          /\ ~regex_is_match(rules.pattern.v, value).v)

\* C23: is_valid is true exactly when no field of the row that has a
\* FieldDefinition has a violation (required and blank, length below
\* min_length or above max_length, pattern not matched); errors holds one
\* entry per violation; a value absent from allowed_values gives one warning
\* and no error; each field's summary counts its own errors and warnings and
\* is valid exactly when it has no error; the counts of the summaries sum to
\* the lengths of errors and warnings.
C23_Validation ==
    val_pc = "validated" =>
        LET r == val_result.v
            n == Len(val_field_data)
            name(i) == val_field_data[i][1]
            value(i) == val_field_data[i][2]
            def(i) == GetFieldDefinition(val_enhanced_map, name(i))
            violations(i) == IF IsSome(def(i)) THEN ViolationCount(value(i), def(i).v) ELSE 0
            absent(i) == /\ IsSome(def(i))
                         /\ IsSome(def(i).v.validation_rules.allowed_values)
                         /\ \A k \in 1..Len(def(i).v.validation_rules.allowed_values.v) :
                               def(i).v.validation_rules.allowed_values.v[k] # value(i)
            entries(list, i) == Cardinality({k \in 1..Len(list) : list[k].field = name(i)}) IN
        /\ val_result.ok
        /\ r.is_valid <=> \A i \in 1..n : violations(i) = 0
        /\ DOMAIN r.field_summary = {name(i) : i \in 1..n}
        /\ \A i \in 1..n :
              /\ entries(r.errors, i) = violations(i)
              /\ entries(r.warnings, i) = IF absent(i) THEN 1 ELSE 0
              /\ r.field_summary[name(i)].error_count = entries(r.errors, i)
              /\ r.field_summary[name(i)].warning_count = entries(r.warnings, i)
              /\ r.field_summary[name(i)].is_valid <=> r.field_summary[name(i)].error_count = 0
        /\ Len(r.errors) = SumOf([i \in 1..n |-> r.field_summary[name(i)].error_count], n)
        /\ Len(r.warnings) = SumOf([i \in 1..n |-> r.field_summary[name(i)].warning_count], n)

-----------------------------------------------------------------------------
(* ConversionMap::to_json_map and ConversionMap::from_json_map *)

\* The loop of to_json_map over self.mappings
RECURSIVE ToJsonLoop(_, _)
ToJsonLoop(out, mappings) ==
    IF mappings = <<>> THEN out
    ELSE ToJsonLoop(Insert(out, Head(mappings)[1], JValue("String", Head(mappings)[2])),
                    Tail(mappings))

\* self is [header_row, mappings], the mappings as a sequence of
\* <<key, value>> in iteration order; the result is the HashMap as a function
to_json_map(self) ==
    ToJsonLoop(IF IsSome(self.header_row)
               THEN Insert(EmptyMap, <<"h", "e", "a", "d", "e", "r", "_", "r", "o", "w">>, JValue("Number", self.header_row.v))
               ELSE EmptyMap,
               self.mappings)

\* The loop over the members of a nested mappings object
RECURSIVE MappingsObjLoop(_, _)
MappingsObjLoop(mappings, mappings_obj) ==
    IF mappings_obj = <<>> THEN mappings
    ELSE MappingsObjLoop(Insert(mappings, Head(mappings_obj)[1], Head(mappings_obj)[2]),
                         Tail(mappings_obj))

\* The loop of from_json_map; acc is [header_row, mappings] and entries the
\* JSON map as a sequence of <<key, value>> in iteration order.  The number
\* read with as_u64 is cast to u32; the numbers to_json_map writes are u32.
RECURSIVE FromJsonLoop(_, _)
FromJsonLoop(acc, entries) ==
    IF entries = <<>> THEN acc
    ELSE LET key == Head(entries)[1]
             value == Head(entries)[2] IN
         FromJsonLoop(
             IF key = <<"h", "e", "a", "d", "e", "r", "_", "r", "o", "w">>
             THEN [acc EXCEPT !.header_row = As(value, "Number")]
             ELSE IF key = <<"m", "a", "p", "p", "i", "n", "g", "s">>
             THEN IF IsSome(As(value, "Object"))
                  THEN [acc EXCEPT !.mappings = MappingsObjLoop(@, As(value, "Object").v)]
                  ELSE acc
             ELSE IF IsSome(As(value, "String"))
                  THEN [acc EXCEPT !.mappings = Insert(@, key, As(value, "String").v)]
                  ELSE acc,
             Tail(entries))

from_json_map(entries) ==
    Ok(FromJsonLoop([header_row |-> None, mappings |-> EmptyMap], entries))

-----------------------------------------------------------------------------
(* JsonSpec: a ConversionMap written with to_json_map and read back with     *)
(* from_json_map                                                             *)

MaxMappings == 2

MappingKeys == {<<"P", "o", "r", "t">>, <<"S", "p", "e", "e", "d">>, <<"h", "e", "a", "d", "e", "r", "_", "r", "o", "w">>, <<"m", "a", "p", "p", "i", "n", "g", "s">>}

MappingFields == {<<"s", "w", "i", "t", "c", "h", "_", "i", "f", "n", "a", "m", "e">>, <<"l", "i", "n", "k", "_", "s", "p", "e", "e", "d">>}

\* The ConversionMaps: a header row or none, and up to MaxMappings mappings
\* with distinct keys in every iteration order
ConversionMaps ==
    {[header_row |-> h, mappings |-> ms] :
        h \in {None, Some(1), Some(2)},
        ms \in {s \in SeqsUpTo(MappingKeys \X MappingFields, MaxMappings) :
                   \A i, j \in 1..Len(s) : i # j => s[i][1] # s[j][1]}}

JsonInit ==
    /\ FileIdle
    /\ ValidIdle
    /\ SessionIdle
    /\ json_in \in {Some(m) : m \in ConversionMaps}
    /\ json_result = None
    /\ json_pc = "input"

\* to_json_map, then from_json_map, which consumes the HashMap in some
\* iteration order
RoundTrip ==
    /\ json_pc = "input"
    /\ LET written == to_json_map(json_in.v)
           n == Cardinality(DOMAIN written) IN
       \E order \in {o \in [1..n -> DOMAIN written] : \A i, j \in 1..n : i # j => o[i] # o[j]} :
           json_result' = Some([written |-> written,
                                read |-> from_json_map(AsSeq([i \in 1..n |->
                                                                 <<order[i], written[order[i]]>>]))])
    /\ json_pc' = "read"
    /\ UNCHANGED <<json_in, file_vars, val_vars, sess_vars>>

JsonNext == RoundTrip

JsonSpec == JsonInit /\ [][JsonNext]_vars

\* C24: from_json_map(to_json_map(m)) has the header_row and the mappings
\* of m, whatever the keys of the mappings are.
C24_JsonRoundTrip ==
    json_pc = "read" =>
        /\ json_result.v.read.ok
        /\ json_result.v.read.v.header_row = json_in.v.header_row
        /\ DOMAIN json_result.v.read.v.mappings =
               {json_in.v.mappings[i][1] : i \in 1..Len(json_in.v.mappings)}
        /\ \A i \in 1..Len(json_in.v.mappings) :
               json_result.v.read.v.mappings[json_in.v.mappings[i][1]] = json_in.v.mappings[i][2]

\* The number (1-based) of the first row of the sheet that has a non-empty
\* cell, 0 if there is none
FirstPopulatedRow(worksheet_rows) ==
    LET S == {i \in 1..Len(worksheet_rows) :
                 \E c \in 1..Len(worksheet_rows[i]) : ~IsEmpty(worksheet_rows[i][c])} IN
    IF S = {} THEN 0 ELSE CHOOSE i \in S : \A j \in S : i <= j

\* The headers are those of row n of the sheet and the data rows are the
\* rows after row n
HeadersReadFrom(n) ==
    /\ parsed.v.headers = extract_headers(in_worksheet_rows[n])
    /\ parsed.v.data_rows = SubSeq(in_worksheet_rows, n + 1, Len(in_worksheet_rows))

\* C25: with header_row = n (1-based, n >= 1) the headers are read from row
\* n of the sheet (grid row n-1) and the data rows are exactly the rows
\* after it; a header_row beyond the last row gives an empty result; when
\* header_row is unspecified (no conversion map, or a map without
\* header_row) the header row is the first row with a non-empty cell.
C25_HeaderRowSelection ==
    (parse_pc = "parsed" /\ in_worksheet_rows # <<>>) =>
        IF IsSome(in_conversion_map) /\ IsSome(in_conversion_map.v.header_row)
        THEN LET n == in_conversion_map.v.header_row.v IN
             /\ (n >= 1 /\ n <= Len(in_worksheet_rows)) => HeadersReadFrom(n)
             /\ n > Len(in_worksheet_rows) => parsed.v.rows = <<>> /\ parsed.v.headers = <<>>
        ELSE FirstPopulatedRow(in_worksheet_rows) > 0 =>
                 HeadersReadFrom(FirstPopulatedRow(in_worksheet_rows))

\* C30: a data row whose source cells are all empty produces no row of the
\* output, wherever it stands among the data rows: it is skipped as blank
\* or refused by convert_to_network_config_row.
C30_EmptyRowProducesNothing ==
    parse_pc = "parsed" =>
        \A i \in 1..Len(parsed.v.data_rows) :
            (\A c \in 1..Len(parsed.v.data_rows[i]) : IsEmpty(parsed.v.data_rows[i][c])) =>
                LET row_data == parsed.v.data_rows_with_merges[i] IN
                \/ \A h \in DOMAIN row_data : Trim(row_data[h]) = <<>>
                \/ ~IsSome(convert_to_network_config_row(row_data, parsed.v.field_map))

-----------------------------------------------------------------------------
(* ApstraApiClient and the commands of apstra_api_handler *)

\* ApstraApiClient::new: no token yet (the reqwest client and the base_url
\* take no part in the session map)
ApstraApiClient_new == [auth_token |-> None]

\* ApstraApiClient::login with the token kept out of the client
login_token_dropped(self, status) ==
    IF status = "CREATED"
    THEN [client |-> self, result |-> Ok("token")]
    ELSE [client |-> self, result |-> Err(status)]

\* ApstraApiClient::login once the response of the POST is known: status is
\* the StatusCode, or "send_error" when send() failed.  Returns the client
\* after the call and the Result.
login(self, status) ==
    IF status = "CREATED"
    THEN [client |-> [self EXCEPT !.auth_token = Some("token")], result |-> Ok("token")]
    ELSE [client |-> self, result |-> Err(status)]

\* ApstraApiClient::is_authenticated
is_authenticated(self) == IsSome(self.auth_token)

\* HashMap::remove
Remove(m, k) == [x \in (DOMAIN m) \ {k} |-> m[x]]

\* The holder of the mutex after the block that looks the client up, with
\* the guard kept alive over the request
guard_kept_over_request(c) == c

\* The holder of the mutex after the block "let client = { ... };" of the
\* query commands: the guard is dropped at the end of the block
guard_after_lookup(c) == 0

-----------------------------------------------------------------------------
(* SessionSpec: up to MaxCommands commands running concurrently on the       *)
(* session map                                                               *)

MaxCommands == 2

Sessions == {"s1", "s2"}

\* A command slot: kind is the command, pc its position, client the local
\* client of apstra_login or the clone of a query, result what it returned.
\* stale (history): the login was awaiting when a logout of its session
\* returned.
IdleCommand ==
    [kind |-> "idle", session_id |-> "", pc |-> "idle", client |-> None, result |-> None,
     stale |-> FALSE]

Returned(command, result) ==
    [kind |-> command.kind, session_id |-> command.session_id, pc |-> "returned",
     client |-> None, result |-> Some(result), stale |-> FALSE]

SessionInit ==
    /\ FileIdle
    /\ ValidIdle
    /\ JsonIdle
    /\ clients = EmptyMap
    /\ mutex = 0
    /\ commands = [c \in 1..MaxCommands |-> IdleCommand]
    /\ logged_out = {}

\* The frontend invokes a command: apstra_login builds its client and sends
\* the request, the other commands go for the lock
Invoke(c) ==
    /\ commands[c].pc \in {"idle", "returned"}
    /\ \E kind \in {"login", "logout", "is_authenticated", "query"}, s \in Sessions :
          commands' = [commands EXCEPT ![c] =
              [kind |-> kind, session_id |-> s,
               pc |-> IF kind = "login" THEN "awaiting" ELSE "lock",
               client |-> IF kind = "login" THEN Some(ApstraApiClient_new) ELSE None,
               result |-> None, stale |-> FALSE]]
    /\ UNCHANGED <<clients, mutex, logged_out, file_vars, val_vars, json_vars>>

\* client.login(...).await completes in apstra_login: on Ok the command goes
\* for the lock, on Err it returns the error
LoginResponse(c) ==
    /\ commands[c].kind = "login"
    /\ commands[c].pc = "awaiting"
    /\ \E status \in {"CREATED", "UNAUTHORIZED", "REQUEST_TIMEOUT", "send_error"} :
          LET r == login(commands[c].client.v, status) IN
          commands' = [commands EXCEPT ![c] =
              IF r.result.ok
              THEN [@ EXCEPT !.pc = "lock", !.client = Some(r.client)]
              ELSE Returned(@, "login failed")]
    /\ UNCHANGED <<clients, mutex, logged_out, file_vars, val_vars, json_vars>>

\* state.lock() returns the guard
AcquireLock(c) ==
    /\ commands[c].pc = "lock"
    /\ mutex = 0
    /\ mutex' = c
    /\ commands' = [commands EXCEPT ![c].pc = "locked"]
    /\ UNCHANGED <<clients, logged_out, file_vars, val_vars, json_vars>>

\* apstra_login: clients.insert(session_id, client), the guard is dropped,
\* the command returns success
LoginStore(c) ==
    /\ commands[c].kind = "login"
    /\ commands[c].pc = "locked"
    /\ mutex = c
    /\ clients' = Insert(clients, commands[c].session_id, commands[c].client.v)
    /\ mutex' = 0
    /\ logged_out' = IF commands[c].stale THEN logged_out
                     ELSE logged_out \ {commands[c].session_id}
    /\ commands' = [commands EXCEPT ![c] = Returned(@, "success")]
    /\ UNCHANGED <<file_vars, val_vars, json_vars>>

\* apstra_logout: clients.remove(&session_id), the guard is dropped, the
\* command returns success
LogoutRemove(c) ==
    /\ commands[c].kind = "logout"
    /\ commands[c].pc = "locked"
    /\ mutex = c
    /\ clients' = Remove(clients, commands[c].session_id)
    /\ mutex' = 0
    /\ logged_out' = logged_out \cup {commands[c].session_id}
    /\ commands' = [d \in 1..MaxCommands |->
                       IF d = c THEN Returned(commands[c], "success")
                       ELSE IF commands[d].kind = "login"
                               /\ commands[d].session_id = commands[c].session_id
                               /\ commands[d].pc \in {"awaiting", "lock"}
                       THEN [commands[d] EXCEPT !.stale = TRUE]
                       ELSE commands[d]]
    /\ UNCHANGED <<file_vars, val_vars, json_vars>>

\* apstra_is_authenticated: the lookup under the guard, which is dropped
\* when the command returns
IsAuthenticatedRead(c) ==
    /\ commands[c].kind = "is_authenticated"
    /\ commands[c].pc = "locked"
    /\ mutex = c
    /\ mutex' = 0
    /\ commands' = [commands EXCEPT ![c] =
           Returned(@, IF commands[c].session_id \in DOMAIN clients
                       THEN is_authenticated(clients[commands[c].session_id])
                       ELSE FALSE)]
    /\ UNCHANGED <<clients, logged_out, file_vars, val_vars, json_vars>>

\* apstra_search_systems, apstra_execute_query and apstra_dump_blueprint:
\* the block that looks the client up and clones it
QueryLookup(c) ==
    /\ commands[c].kind = "query"
    /\ commands[c].pc = "locked"
    /\ mutex = c
    /\ LET s == commands[c].session_id IN
       IF s \notin DOMAIN clients
       THEN /\ commands' = [commands EXCEPT ![c] = Returned(@, "Session not found")]
            /\ mutex' = 0
       ELSE IF ~is_authenticated(clients[s])
       THEN /\ commands' = [commands EXCEPT ![c] = Returned(@, "Not authenticated")]
            /\ mutex' = 0
       ELSE /\ commands' = [commands EXCEPT ![c] =
                               [@ EXCEPT !.pc = "awaiting", !.client = Some(clients[s])]]
            /\ mutex' = guard_after_lookup(c)
    /\ UNCHANGED <<clients, logged_out, file_vars, val_vars, json_vars>>

\* The request of the cloned client completes and the command returns
QueryResponse(c) ==
    /\ commands[c].kind = "query"
    /\ commands[c].pc = "awaiting"
    /\ \E outcome \in {"success", "query failed"} :
          commands' = [commands EXCEPT ![c] = Returned(@, outcome)]
    /\ mutex' = IF mutex = c THEN 0 ELSE mutex
    /\ UNCHANGED <<clients, logged_out, file_vars, val_vars, json_vars>>

SessionNext ==
    \E c \in 1..MaxCommands :
        \/ Invoke(c)
        \/ LoginResponse(c)
        \/ AcquireLock(c)
        \/ LoginStore(c)
        \/ LogoutRemove(c)
        \/ IsAuthenticatedRead(c)
        \/ QueryLookup(c)
        \/ QueryResponse(c)

SessionSpec == SessionInit /\ [][SessionNext]_vars

\* The command that holds the guard is inside its critical section, so no
\* command holds it while it awaits a response
GuardOnlyInCriticalSection == mutex # 0 => commands[mutex].pc = "locked"

\* A step that changes the map, or that takes a command out of its critical
\* section, is taken by the holder of the guard, and it leaves the entries
\* of all sessions but the holder's as they are
MapAccessUnderGuard ==
    /\ \A c \in 1..MaxCommands :
          (commands[c].pc = "locked" /\ commands'[c] # commands[c]) => mutex = c
    /\ clients' # clients =>
          /\ mutex # 0
          /\ commands[mutex].pc = "locked"
          /\ \A s \in Sessions \ {commands[mutex].session_id} :
                /\ s \in DOMAIN clients' <=> s \in DOMAIN clients
                /\ s \in DOMAIN clients => clients'[s] = clients[s]

\* C27: every read and every change of the session map is made by the
\* command holding the mutex, no command holds the mutex while it awaits an
\* HTTP response, and a command changes no entry but that of its own
\* session.
C27_SessionMapSerialized == []GuardOnlyInCriticalSection /\ [][MapAccessUnderGuard]_vars

\* C27 witness: a query of s1 awaits its response with a clone of the
\* client while a login of s2 holds the guard to store its client.
C27_Witness ==
    /\ commands[1].kind = "query" /\ commands[1].session_id = "s1"
    /\ commands[1].pc = "awaiting"
    /\ commands[2].kind = "login" /\ commands[2].session_id = "s2"
    /\ commands[2].pc = "locked"
    /\ mutex = 2
    /\ "s1" \in DOMAIN clients

\* An entry is written for s only by a login of s that succeeded, and a
\* login that returns an error leaves the map as it is
InsertOnlyAfterLogin ==
    /\ \A s \in Sessions :
          (s \in DOMAIN clients' /\ (s \notin DOMAIN clients \/ clients'[s] # clients[s])) =>
              \E c \in 1..MaxCommands :
                  /\ commands[c].kind = "login" /\ commands[c].session_id = s
                  /\ commands[c].pc = "locked"
                  /\ is_authenticated(commands[c].client.v)
                  /\ commands'[c].result = Some("success")
    /\ \A c \in 1..MaxCommands :
          (commands[c].pc = "awaiting" /\ commands'[c].result = Some("login failed")) =>
              clients' = clients

\* C28: every client in the session map is authenticated; an entry for s is
\* inserted only by a login for s that succeeded; a login for s that fails
\* leaves the map, and an entry for s in it, unchanged.
C28_SessionMapInvariant ==
    /\ [](\A s \in DOMAIN clients : is_authenticated(clients[s]))
    /\ [][InsertOnlyAfterLogin]_vars

\* C28 witness: a login of s1 has failed while s1 and s2 were in the map,
\* and both entries are still there.
C28_Witness ==
    /\ commands[1].kind = "login" /\ commands[1].session_id = "s1"
    /\ commands[1].pc = "returned" /\ commands[1].result = Some("login failed")
    /\ DOMAIN clients = {"s1", "s2"}
    /\ is_authenticated(clients["s1"])

\* C29: while a session is logged out (its logout has returned and no login
\* issued after that has succeeded) it has no entry in the map, so that
\* apstra_is_authenticated reads false and a query finds no session.
C29_LogoutRevokes == \A s \in logged_out : s \notin DOMAIN clients

====
